---- MODULE Spec2Model ----
(***************************************************************************)
(* A model of github_stats.py: the transport (Queries.query and            *)
(* Queries.query_rest, with the connection semaphore) and the aggregator    *)
(* (Stats: the lock-guarded core fetch get_stats and the accessors built    *)
(* on it).                                                                  *)
(*                                                                          *)
(* The program runs on one asyncio event loop: the code between two awaits  *)
(* is atomic, and one action of the model is one such stretch of code.      *)
(* The upstream service is the environment: every response it can give      *)
(* (a status, a body, a transport failure) is an input drawn with \E.       *)
(*                                                                          *)
(* The module holds several specifications over one set of variables; the   *)
(* variables a specification does not use keep their initial value.         *)
(*   SpecRest       one query_rest call, attempt by attempt                 *)
(*   SpecTransport  concurrent query and query_rest calls on one Queries    *)
(*   SpecLines      the per-repository loops of lines_changed and views     *)
(*   SpecStats      coroutines reading the accessors backed by get_stats    *)
(*   SpecFetch      the same, under every setting of the exclusions         *)
(*   SpecSummary    coroutines reading total_contributions and              *)
(*                  total_commits                                           *)
(*   SpecLifecycle  coroutines reading the accessors backed by get_stats,   *)
(*                  prs, issues and forks_made                              *)
(*   SpecMain       main, from the environment to the end of the session    *)
(***************************************************************************)
EXTENDS Integers, Sequences, FiniteSets, TLC

VARIABLES
    \* ---- one query_rest call (SpecRest)
    rest_pc,      \* position of the call
    attempt,      \* number of iterations of `for attempt in range(60)` begun
    rest_result,  \* the value query_rest returned
    how,          \* which return statement produced it
    sleeping,     \* seconds of the asyncio.sleep the call is suspended in
    n202,         \* history: 202 responses received so far
    sleeps2,      \* history: 2-second sleeps completed so far
    other,        \* history: the first response whose status was not 202
    got404,       \* history: some response had status 404
    reqP,         \* primary requests sent in the current attempt
    reqF,         \* fallback requests sent in the current attempt
    \* ---- concurrent calls on one Queries instance (SpecTransport)
    max_connections,  \* the constructor's parameter
    semaphore,        \* permits left in self.semaphore
    t_pc,             \* position of each calling coroutine
    t_out,            \* what each coroutine's last call returned, or Raised
    holds,            \* permits each coroutine holds
    \* ---- lines_changed and views (SpecLines)
    l_pc,             \* "idle", or the accessor whose loop is running
    l_set,            \* the repository set `await self.repos` gave
    l_todo,           \* repositories the running loop has not reached yet
    additions,        \* local of lines_changed
    deletions,        \* local of lines_changed
    total,            \* local of views
    _lines_changed,    \* self._lines_changed
    _views,            \* self._views
    l_ret,            \* what the last accessor call returned, or Raised
    expected,         \* history: what the repositories fetched so far add up to
    \* ---- the core fetch and its accessors (SpecStats)
    owned_pages,      \* upstream: pages of owned repositories
    contrib_pages,    \* upstream: pages of repositories contributed to
    viewer_name,      \* upstream: the viewer's name, or None
    _ignore_forked_repos,
    _exclude_repos,
    _exclude_langs,
    _name,
    _stargazers,
    _forks,
    _languages,
    _repos,
    _stats_lock,      \* NoLock until get_stats creates the asyncio.Lock
    locked,           \* the coroutine holding the lock, 0 when it is free
    waiters,          \* the coroutines queued on the lock, first come first
    _stats_fetched,
    s_pc,             \* position of each coroutine
    s_acc,            \* the accessor each coroutine is reading
    next_owned,       \* local of get_stats, per coroutine
    next_contrib,     \* local of get_stats, per coroutine
    s_ret,            \* what the last read of each coroutine came to
    calls,            \* reads each coroutine has made
    fetches,          \* history: times the fetch loop was entered
    aborts,           \* history: times get_stats was left by an exception
    skipped,          \* history: why nodes were passed over ("seen", "excluded")
    served,           \* history: the nodes the pages held while forks are ignored
    \* ---- the accessors with a routine of their own (SpecSummary)
    contribution_years, \* upstream: the years the viewer contributed in
    fork_pages,       \* upstream: pages of the viewer's own forks
    _emails,
    _total_contributions,
    _prs,
    _issues,
    _forks_made,
    locals,           \* locals of the routine each coroutine is in
    queries,          \* history: queries sent, by routine
    \* ---- main (SpecMain)
    module,           \* the module run as a script
    env,              \* the environment variables main reads
    m_pc,             \* position of main
    session,          \* aiohttp.ClientSession() was created
    requests,         \* requests sent through the session
    ignore_forked_repos

restVars == <<rest_pc, attempt, rest_result, how, sleeping, n202, sleeps2,
              other, got404, reqP, reqF>>

transVars == <<max_connections, semaphore, t_pc, t_out, holds>>

linesVars == <<l_pc, l_set, l_todo, additions, deletions, total,
               _lines_changed, _views, l_ret, expected>>

statsVars == <<owned_pages, contrib_pages, viewer_name, _ignore_forked_repos,
               _exclude_repos, _exclude_langs, _name, _stargazers, _forks,
               _languages, _repos, _stats_lock, locked, waiters,
               _stats_fetched, s_pc, s_acc, next_owned, next_contrib, s_ret,
               calls, fetches, aborts, skipped, served>>

summaryVars == <<contribution_years, fork_pages, _emails,
                 _total_contributions, _prs, _issues, _forks_made, locals,
                 queries>>

mainVars == <<module, env, m_pc, session, requests, ignore_forked_repos>>

vars == <<restVars, transVars, linesVars, statsVars, summaryVars, mainVars>>

None == "None"

(***************************************************************************)
(* Queries.query_rest                                                      *)
(***************************************************************************)

\* range(60)
MaxAttempts == 60

\* HTTP statuses the upstream may answer with; 500 stands for every status
\* the code does not name.
Statuses == {200, 202, 403, 404, 500}

\* What decoding a response body gives: a payload, JSON null, or a decode
\* error ("bad").
Payloads == {"b1", "b2"}
Bodies == Payloads \cup {"null", "bad"}

\* The call ended by raising.
Raised == "raised"

\* dict()
EmptyDict == "{}"

Sleep(secs) == [kind |-> "sleep", secs |-> secs, value |-> None]
Return(v) == [kind |-> "return", secs |-> 0, value |-> v]
NextAttempt == [kind |-> "next", secs |-> 0, value |-> None]
Except == [kind |-> "except", secs |-> 0, value |-> None]

\* The fate of an attempt whose primary request was answered.
PrimaryOutcome404Falls(status, body) ==
    IF status = 202 THEN Sleep(2)
    ELSE IF status = 403 THEN Sleep(5)
    ELSE IF body = "bad" THEN Except
    ELSE IF body = "null" THEN NextAttempt
    ELSE Return(body)

PrimaryOutcome202NoSleep(status, body) ==
    IF status = 202 THEN NextAttempt
    ELSE IF status = 403 THEN Sleep(5)
    ELSE IF status = 404 THEN Return(EmptyDict)
    ELSE IF body = "bad" THEN Except
    ELSE IF body = "null" THEN NextAttempt
    ELSE Return(body)

PrimaryOutcome(status, body) ==
    IF status = 202 THEN Sleep(2)
    ELSE IF status = 403 THEN Sleep(5)
    ELSE IF status = 404 THEN Return(EmptyDict)
    ELSE IF body = "bad" THEN Except
    ELSE IF body = "null" THEN NextAttempt
    ELSE Return(body)

\* The fate of an attempt whose fallback request was answered. A decode
\* error is caught by the inner `except Exception as e2`.
FallbackOutcome(status, body) ==
    IF status = 202 THEN Sleep(2)
    ELSE IF status = 403 THEN Sleep(5)
    ELSE IF status = 404 THEN Return(EmptyDict)
    ELSE IF status = 200 THEN
        IF body = "bad" THEN NextAttempt
        ELSE IF body = "null" THEN NextAttempt
        ELSE Return(body)
    ELSE NextAttempt

\* `for attempt in range(60)`: is there another iteration?
MoreAttemptsOffByOne(a) == a <= MaxAttempts

MoreAttempts(a) == a < MaxAttempts

\* What the history keeps of a response: its status, and its body when the
\* status is 200.
Seen(status, body) ==
    [status |-> status, body |-> IF status = 200 THEN body ELSE None]

\* No response other than 202 yet.
NoResponse == [status |-> 0, body |-> None]

RecordResponse(status, body) ==
    /\ n202' = IF status = 202 THEN n202 + 1 ELSE n202
    /\ other' = IF status # 202 /\ other = NoResponse THEN Seen(status, body) ELSE other
    /\ got404' = (got404 \/ status = 404)

\* Where an attempt goes from its outcome.
Apply(o, sleepPc) ==
    /\ rest_pc' = CASE o.kind = "sleep" -> sleepPc
                    [] o.kind = "return" -> "done"
                    [] o.kind = "next" -> "loop"
                    [] o.kind = "except" -> "handler"
    /\ sleeping' = o.secs
    /\ rest_result' = IF o.kind = "return" THEN o.value ELSE rest_result
    /\ how' = IF o.kind = "return" THEN "return" ELSE how

RestIdle ==
    /\ rest_pc = "loop"
    /\ attempt = 0
    /\ rest_result = None
    /\ how = None
    /\ sleeping = 0
    /\ n202 = 0
    /\ sleeps2 = 0
    /\ other = NoResponse
    /\ got404 = FALSE
    /\ reqP = 0
    /\ reqF = 0

\* The head of the loop: begin the next attempt and send the primary request.
RestBegin ==
    /\ rest_pc = "loop"
    /\ MoreAttempts(attempt)
    /\ attempt' = attempt + 1
    /\ rest_pc' = "primary"
    /\ reqP' = 1
    /\ reqF' = 0
    /\ UNCHANGED <<rest_result, how, sleeping, n202, sleeps2, other, got404>>

\* The loop is exhausted: "Too many retries", return dict().
RestExhausted ==
    /\ rest_pc = "loop"
    /\ ~MoreAttempts(attempt)
    /\ rest_pc' = "done"
    /\ rest_result' = EmptyDict
    /\ how' = "exhausted"
    /\ UNCHANGED <<attempt, sleeping, n202, sleeps2, other, got404, reqP, reqF>>

\* session.get answered: the status chain, then r_async.json().
RestPrimaryResponse ==
    /\ rest_pc = "primary"
    /\ \E status \in Statuses, body \in Bodies :
        /\ RecordResponse(status, body)
        /\ Apply(PrimaryOutcome(status, body), "sleep")
    /\ UNCHANGED <<attempt, sleeps2, reqP, reqF>>

\* session.get raised (connection error): the except clause is entered.
RestPrimaryFail ==
    /\ rest_pc = "primary"
    /\ rest_pc' = "handler"
    /\ UNCHANGED <<attempt, rest_result, how, sleeping, n202, sleeps2, other,
                   got404, reqP, reqF>>

\* The except clause: requests.get is sent.
RestFallbackSend ==
    /\ rest_pc = "handler"
    /\ rest_pc' = "fallback"
    /\ reqF' = reqF + 1
    /\ UNCHANGED <<attempt, rest_result, how, sleeping, n202, sleeps2, other,
                   got404, reqP>>

\* requests.get answered: the fallback's status chain.
RestFallbackResponse ==
    /\ rest_pc = "fallback"
    /\ \E status \in Statuses, body \in Bodies :
        /\ RecordResponse(status, body)
        /\ Apply(FallbackOutcome(status, body), "fbsleep")
    /\ UNCHANGED <<attempt, sleeps2, reqP, reqF>>

\* requests.get raising with no `except Exception as e2` around it.
RestFallbackFailUncaught ==
    /\ rest_pc = "fallback"
    /\ rest_pc' = Raised
    /\ UNCHANGED <<attempt, rest_result, how, sleeping, n202, sleeps2, other,
                   got404, reqP, reqF>>

\* requests.get raised: "Both aiohttp and requests failed", next attempt.
RestFallbackFail ==
    /\ rest_pc = "fallback"
    /\ rest_pc' = "loop"
    /\ UNCHANGED <<attempt, rest_result, how, sleeping, n202, sleeps2, other,
                   got404, reqP, reqF>>

\* asyncio.sleep returns; `continue`.
RestWake ==
    /\ rest_pc \in {"sleep", "fbsleep"}
    /\ rest_pc' = "loop"
    /\ sleeps2' = IF sleeping = 2 THEN sleeps2 + 1 ELSE sleeps2
    /\ sleeping' = 0
    /\ UNCHANGED <<attempt, rest_result, how, n202, other, got404, reqP, reqF>>

(***************************************************************************)
(* Concurrent calls of query and query_rest on one Queries instance.       *)
(*                                                                         *)
(* Each coroutine calls query or query_rest again and again. A position    *)
(* is an await of the code: waiting for a permit, a request in flight, a   *)
(* sleep. The fallback requests (requests.post, requests.get) are          *)
(* synchronous: while one is in flight the event loop runs nothing else.    *)
(* The attempt counter of query_rest is not kept here, the semaphore        *)
(* protocol does not read it: any attempt may be the last one.              *)
(* Decoding the primary response (await r_async.json()) happens after the  *)
(* permit is released and touches nothing shared: it is one step with the  *)
(* arrival of the response.                                                 *)
(***************************************************************************)

\* Coroutines calling the transport concurrently.
NumCallers == 3
Callers == 1..NumCallers

\* Largest max_connections tried (the constructor's default is 10).
MaxPermits == 2

TransIdle(permits) ==
    /\ max_connections \in permits
    /\ semaphore = max_connections
    /\ t_pc = [c \in Callers |-> "idle"]
    /\ t_out = [c \in Callers |-> None]
    /\ holds = [c \in Callers |-> 0]

\* A synchronous fallback request is in flight: it blocks the event loop.
Blocked == \E c \in Callers : t_pc[c] \in {"q_fallback", "r_fallback"}

\* Semaphore.acquire returns only when a permit is left.
CanAcquireOffByOne == semaphore >= 0

CanAcquire == semaphore > 0

\* __aenter__ of `async with self.semaphore`
Acquire(c) ==
    /\ CanAcquire
    /\ semaphore' = semaphore - 1
    /\ holds' = [holds EXCEPT ![c] = @ + 1]

\* __aexit__ of `async with self.semaphore`
Release(c) ==
    /\ semaphore' = semaphore + 1
    /\ holds' = [holds EXCEPT ![c] = @ - 1]

Goto(c, pc) == t_pc' = [t_pc EXCEPT ![c] = pc]

\* The call of c ends: it returns v, or raises.
Finish(c, v) ==
    /\ t_pc' = [t_pc EXCEPT ![c] = "idle"]
    /\ t_out' = [t_out EXCEPT ![c] = v]

\* ---- Queries.query

\* A coroutine calls query(generated_query).
QCall(c) ==
    /\ ~Blocked
    /\ t_pc[c] = "idle"
    /\ Goto(c, "q_acquire")
    /\ t_out' = [t_out EXCEPT ![c] = None]
    /\ UNCHANGED <<max_connections, semaphore, holds>>

\* The permit is taken and session.post is sent.
QPrimarySend(c) ==
    /\ ~Blocked
    /\ t_pc[c] = "q_acquire"
    /\ Acquire(c)
    /\ Goto(c, "q_primary")
    /\ UNCHANGED <<max_connections, t_out>>

\* session.post answered; the permit is released, then the body is decoded:
\* a result is returned, None falls through to `return dict()`, a decode
\* error enters the except clause.
QPrimaryResponse(c) ==
    /\ ~Blocked
    /\ t_pc[c] = "q_primary"
    /\ Release(c)
    /\ \E body \in Bodies :
        IF body = "bad" THEN Goto(c, "q_handler") /\ UNCHANGED t_out
        ELSE Finish(c, IF body = "null" THEN EmptyDict ELSE body)
    /\ UNCHANGED max_connections

\* session.post raised; the permit is released and the except clause entered.
QPrimaryFail(c) ==
    /\ ~Blocked
    /\ t_pc[c] = "q_primary"
    /\ Release(c)
    /\ Goto(c, "q_handler")
    /\ UNCHANGED <<max_connections, t_out>>

\* The except clause: the permit is taken and requests.post is sent.
QFallbackSend(c) ==
    /\ ~Blocked
    /\ t_pc[c] = "q_handler"
    /\ Acquire(c)
    /\ Goto(c, "q_fallback")
    /\ UNCHANGED <<max_connections, t_out>>

\* What the except clause of query does with the fallback's answer: nothing
\* catches a decode error of r_requests.json() there.
QueryFallbackResult(body) ==
    IF body = "bad" THEN Raised
    ELSE IF body = "null" THEN EmptyDict
    ELSE body

\* requests.post answered.
QFallbackResponse(c) ==
    /\ t_pc[c] = "q_fallback"
    /\ Release(c)
    /\ \E body \in Bodies : Finish(c, QueryFallbackResult(body))
    /\ UNCHANGED max_connections

\* requests.post raised inside the except clause: the exception leaves query.
QFallbackFail(c) ==
    /\ t_pc[c] = "q_fallback"
    /\ Release(c)
    /\ Finish(c, Raised)
    /\ UNCHANGED max_connections

\* ---- Queries.query_rest

\* A coroutine calls query_rest(path).
RCall(c) ==
    /\ ~Blocked
    /\ t_pc[c] = "idle"
    /\ Goto(c, "r_loop")
    /\ t_out' = [t_out EXCEPT ![c] = None]
    /\ UNCHANGED <<max_connections, semaphore, holds>>

\* An attempt begins: the permit is taken and session.get is sent.
RPrimarySend(c) ==
    /\ ~Blocked
    /\ t_pc[c] = "r_loop"
    /\ Acquire(c)
    /\ Goto(c, "r_primary")
    /\ UNCHANGED <<max_connections, t_out>>

\* The loop is exhausted: return dict().
RExhausted(c) ==
    /\ ~Blocked
    /\ t_pc[c] = "r_loop"
    /\ Finish(c, EmptyDict)
    /\ UNCHANGED <<max_connections, semaphore, holds>>

\* Where a query_rest call goes from the outcome of an attempt.
RApply(c, o, sleepPc) ==
    IF o.kind = "return" THEN Finish(c, o.value)
    ELSE /\ Goto(c, CASE o.kind = "sleep" -> sleepPc
                      [] o.kind = "next" -> "r_loop"
                      [] o.kind = "except" -> "r_handler")
         /\ UNCHANGED t_out

\* session.get answered; the permit is released before the status is read.
RPrimaryResponse(c) ==
    /\ ~Blocked
    /\ t_pc[c] = "r_primary"
    /\ Release(c)
    /\ \E status \in Statuses, body \in Bodies :
        RApply(c, PrimaryOutcome(status, body), "r_sleep")
    /\ UNCHANGED max_connections

\* session.get raised.
RPrimaryFail(c) ==
    /\ ~Blocked
    /\ t_pc[c] = "r_primary"
    /\ Release(c)
    /\ Goto(c, "r_handler")
    /\ UNCHANGED <<max_connections, t_out>>

\* The except clause: the permit is taken and requests.get is sent.
RFallbackSend(c) ==
    /\ ~Blocked
    /\ t_pc[c] = "r_handler"
    /\ Acquire(c)
    /\ Goto(c, "r_fallback")
    /\ UNCHANGED <<max_connections, t_out>>

\* requests.get answered. The status chain runs inside `async with`: a 202
\* or 403 sleeps with the permit still held, every other outcome leaves the
\* block and releases it.
RFallbackResponse(c) ==
    /\ t_pc[c] = "r_fallback"
    /\ \E status \in Statuses, body \in Bodies :
        LET o == FallbackOutcome(status, body) IN
        /\ RApply(c, o, "r_fbsleep")
        /\ IF o.kind = "sleep" THEN UNCHANGED <<semaphore, holds>>
           ELSE Release(c)
    /\ UNCHANGED max_connections

\* requests.get raised: caught by the inner except, next attempt.
RFallbackFail(c) ==
    /\ t_pc[c] = "r_fallback"
    /\ Release(c)
    /\ Goto(c, "r_loop")
    /\ UNCHANGED <<max_connections, t_out>>

\* The primary path's asyncio.sleep returns; `continue`.
RWake(c) ==
    /\ ~Blocked
    /\ t_pc[c] = "r_sleep"
    /\ Goto(c, "r_loop")
    /\ UNCHANGED <<max_connections, semaphore, holds, t_out>>

\* A `continue` that would leave the `async with` block with the permit.
RFallbackWakeKeepsPermit(c) ==
    /\ ~Blocked
    /\ t_pc[c] = "r_fbsleep"
    /\ Goto(c, "r_loop")
    /\ UNCHANGED <<max_connections, semaphore, holds, t_out>>

\* The fallback path's asyncio.sleep returns; `continue` leaves the
\* `async with` block and releases the permit.
RFallbackWake(c) ==
    /\ ~Blocked
    /\ t_pc[c] = "r_fbsleep"
    /\ Release(c)
    /\ Goto(c, "r_loop")
    /\ UNCHANGED <<max_connections, t_out>>

\* Requests sent and not yet answered.
InFlight ==
    Cardinality({c \in Callers :
        t_pc[c] \in {"q_primary", "q_fallback", "r_primary", "r_fallback"}})

(***************************************************************************)
(* Stats.lines_changed and Stats.views                                     *)
(*                                                                         *)
(* One step is one iteration of `for i, repo in enumerate(repos)`: the     *)
(* await of query_rest and the processing of what it gave. The answer of   *)
(* the REST endpoint is the input. Where the API gives an author object    *)
(* its login is a string, and the fields a, d and count are integers.      *)
(***************************************************************************)

\* Repository identifiers (nameWithOwner).
MaxRepos == 2
RepoIds == 1..MaxRepos

\* self.username, and the logins the API reports.
username == "ann"
Logins == {"ann", "Ann", "bob"}

\* str.lower()
LowerKeepsCase(s) == s

Lower(s) == CASE s = "Ann" -> "ann" [] OTHER -> s

NotDict == [dict |-> FALSE, a |-> 0, d |-> 0, count |-> 0]
Week(a, d) == [dict |-> TRUE, a |-> a, d |-> d, count |-> 0]
View(n) == [dict |-> TRUE, a |-> 0, d |-> 0, count |-> n]

\* The `weeks` of a contributor entry: not a list, or a list of weeks some
\* of which are not objects.
ListOf(items) == [list |-> TRUE, items |-> items]
NotList == [list |-> FALSE, items |-> <<>>]
WeekLists ==
    {ListOf(<<>>), ListOf(<<Week(1, 2)>>),
     ListOf(<<Week(1, 0), NotDict, Week(2, 1)>>)}

\* A contributor entry: not an object; an object whose author is not an
\* object ("null"); or an object with an author login and weeks.
NoAuthor == "null"
Entries ==
    [dict : {FALSE}, author : {NoAuthor}, weeks : {NotList}]
    \cup [dict : {TRUE}, author : {NoAuthor}, weeks : {ListOf(<<Week(1, 2)>>)}]
    \cup [dict : {TRUE}, author : Logins, weeks : WeekLists \cup {NotList}]

\* Longest contributor list, and longest views list, of a response.
MaxEntries == 2

SeqsUpTo(S, n) == UNION {[1..k -> S] : k \in 0..n}

\* What query_rest gives lines_changed, or that the fetch raised:
\* dict() (404, retries exhausted), a JSON object, or a list of entries.
Fetched(kind, body) == [kind |-> kind, body |-> body]
FetchRaised == Fetched("raise", <<>>)
FetchedEmpty == Fetched("empty", <<>>)
ContributorResponses ==
    {FetchRaised, FetchedEmpty, Fetched("dict", <<>>)}
    \cup {Fetched("list", es) : es \in SeqsUpTo(Entries, MaxEntries)}

\* What query_rest gives views: dict(), a list, or an object whose "views"
\* is a list of views or is not a list.
ViewLists ==
    {ListOf(<<>>), ListOf(<<View(3)>>), ListOf(<<View(1), NotDict, View(2)>>)}
ViewResponses ==
    {Fetched("raise", NotList), Fetched("empty", NotList),
     Fetched("list", NotList), Fetched("dict", NotList)}
    \cup {Fetched("dict", vs) : vs \in ViewLists}

\* `for week in weeks: if isinstance(week, dict): additions += week.get("a", 0)`
RECURSIVE SumWeeks(_, _)
SumWeeks(weeks, acc) ==
    IF weeks = <<>> THEN acc
    ELSE LET week == Head(weeks) IN
         SumWeeks(Tail(weeks),
                  IF week.dict THEN [a |-> acc.a + week.a, d |-> acc.d + week.d]
                  ELSE acc)

\* `for author_obj in r`, with its three `continue`s.
RECURSIVE SumAuthors(_, _)
SumAuthors(r, acc) ==
    IF r = <<>> THEN acc
    ELSE LET author_obj == Head(r) IN
         SumAuthors(Tail(r),
            IF ~author_obj.dict \/ author_obj.author = NoAuthor THEN acc
            ELSE IF Lower(author_obj.author) # Lower(username) THEN acc
            ELSE IF ~author_obj.weeks.list THEN acc
            ELSE SumWeeks(author_obj.weeks.items, acc))

\* The body of the try of lines_changed for one repository: a raising fetch
\* is caught (`except Exception: continue`), an empty or non-list answer is
\* skipped, a list is summed.
Propagates == [raised |-> TRUE, a |-> 0, d |-> 0, total |-> 0]
Lines(acc) == [raised |-> FALSE, a |-> acc.a, d |-> acc.d, total |-> 0]
Total(n) == [raised |-> FALSE, a |-> 0, d |-> 0, total |-> n]

LinesIterationNoTry(resp, acc) ==
    IF resp.kind = "raise" THEN Propagates
    ELSE IF resp.kind # "list" \/ resp.body = <<>> THEN Lines(acc)
    ELSE Lines(SumAuthors(resp.body, acc))

LinesIteration(resp, acc) ==
    IF resp.kind = "raise" THEN Lines(acc)
    ELSE IF resp.kind # "list" \/ resp.body = <<>> THEN Lines(acc)
    ELSE Lines(SumAuthors(resp.body, acc))

\* `for view in views_data: if isinstance(view, dict): total += view.get("count", 0)`
RECURSIVE SumViews(_, _)
SumViews(views_data, acc) ==
    IF views_data = <<>> THEN acc
    ELSE LET view == Head(views_data) IN
         SumViews(Tail(views_data), IF view.dict THEN acc + view.count ELSE acc)

\* The body of the try of views for one repository.
ViewsIteration(resp, acc) ==
    IF resp.kind = "raise" THEN Total(acc)
    ELSE IF resp.kind # "dict" THEN Total(acc)
    ELSE IF ~resp.body.list THEN Total(acc)
    ELSE Total(SumViews(resp.body.items, acc))

\* What a repository is worth, from the answer alone: the weeks of the
\* entries of the user, whatever the case of the login; nothing when the
\* fetch failed.
UserEntries(es) ==
    {i \in 1..Len(es) : /\ es[i].dict
                        /\ es[i].author \in {"ann", "Ann"}
                        /\ es[i].weeks.list}
RECURSIVE SumOver(_, _)
SumOver(S, f) ==
    IF S = {} THEN 0
    ELSE LET x == CHOOSE y \in S : TRUE IN f[x] + SumOver(S \ {x}, f)
WeeksWorth(weeks, field) ==
    SumOver({j \in 1..Len(weeks) : weeks[j].dict},
            [j \in 1..Len(weeks) |-> IF field = "a" THEN weeks[j].a
                                      ELSE IF field = "d" THEN weeks[j].d
                                      ELSE weeks[j].count])
LinesWorth(resp, field) ==
    IF resp.kind # "list" THEN 0
    ELSE SumOver(UserEntries(resp.body),
                 [i \in 1..Len(resp.body) |->
                    IF i \in UserEntries(resp.body)
                    THEN WeeksWorth(resp.body[i].weeks.items, field) ELSE 0])
ViewsWorth(resp) ==
    IF resp.kind # "dict" \/ ~resp.body.list THEN 0
    ELSE WeeksWorth(resp.body.items, "count")

\* Optional[...] attributes of Stats, and what an accessor call came to.
Unset == [some |-> FALSE, a |-> 0, d |-> 0, n |-> 0]
SomePair(a, d) == [some |-> TRUE, a |-> a, d |-> d, n |-> 0]
SomeInt(n) == [some |-> TRUE, a |-> 0, d |-> 0, n |-> n]
NoCall == [kind |-> "none", val |-> Unset]
Returned(v) == [kind |-> "returned", val |-> v]
CallRaised == [kind |-> "raised", val |-> Unset]

\* An entry lines_changed passes over whatever its login is, and a list
\* that holds one in front of an entry of the user with lines to count.
Malformed(entry) ==
    ~entry.dict \/ entry.author = NoAuthor \/ ~entry.weeks.list
Mixed(resp) ==
    /\ resp.kind = "list"
    /\ \E i, j \in 1..Len(resp.body) :
          /\ i < j
          /\ Malformed(resp.body[i])
          /\ j \in UserEntries(resp.body)
          /\ WeeksWorth(resp.body[j].weeks.items, "a") > 0

\* The history of one loop: the worth of the repositories reached, which
\* were reached, whose fetch failed (raised, or gave dict()), whether a
\* repository was fetched with success after a failed one, and whether a
\* list held a malformed entry in front of one of the user.
NoExpectation == [a |-> 0, d |-> 0, v |-> 0, seen |-> {}, failed |-> {},
                  later |-> FALSE, mixed |-> FALSE]
Expect(e, repo, resp, a, d, v) ==
    [a |-> e.a + a, d |-> e.d + d, v |-> e.v + v,
     seen |-> e.seen \cup {repo},
     failed |-> IF resp.kind \in {"raise", "empty"}
                THEN e.failed \cup {repo} ELSE e.failed,
     later |-> e.later \/ (e.failed # {} /\ a + d + v > 0),
     mixed |-> e.mixed]

LinesIdle(sets) ==
    /\ l_pc = "idle"
    /\ l_set \in sets
    /\ l_todo = {}
    /\ additions = 0
    /\ deletions = 0
    /\ total = 0
    /\ _lines_changed = Unset
    /\ _views = Unset
    /\ l_ret = NoCall
    /\ expected = [lines |-> NoExpectation, views |-> NoExpectation]

\* lines_changed is read: the memo, or the loop starts over self.repos.
LinesCall ==
    /\ l_pc = "idle"
    /\ IF _lines_changed.some
       THEN /\ l_ret' = Returned(_lines_changed)
            /\ UNCHANGED <<l_pc, l_todo, additions, deletions, expected>>
       ELSE /\ l_pc' = "lines_changed"
            /\ l_todo' = l_set
            /\ additions' = 0
            /\ deletions' = 0
            /\ l_ret' = NoCall
            /\ expected' = [expected EXCEPT !.lines = NoExpectation]
    /\ UNCHANGED <<l_set, total, _lines_changed, _views>>

\* One iteration of the loop of lines_changed.
LinesRepo ==
    /\ l_pc = "lines_changed"
    /\ \E repo \in l_todo, resp \in ContributorResponses :
        LET acc == LinesIteration(resp, [a |-> additions, d |-> deletions]) IN
        /\ expected' = [expected EXCEPT !.lines =
                [Expect(@, repo, resp, LinesWorth(resp, "a"),
                        LinesWorth(resp, "d"), 0)
                   EXCEPT !.mixed = @ \/ Mixed(resp)]]
        /\ IF acc.raised
           THEN /\ l_pc' = "idle"
                /\ l_ret' = CallRaised
                /\ UNCHANGED <<l_todo, additions, deletions>>
           ELSE /\ l_todo' = l_todo \ {repo}
                /\ additions' = acc.a
                /\ deletions' = acc.d
                /\ UNCHANGED <<l_pc, l_ret>>
    /\ UNCHANGED <<l_set, total, _lines_changed, _views>>

\* The loop of lines_changed is over: the pair is stored and returned.
LinesReturn ==
    /\ l_pc = "lines_changed"
    /\ l_todo = {}
    /\ _lines_changed' = SomePair(additions, deletions)
    /\ l_ret' = Returned(SomePair(additions, deletions))
    /\ l_pc' = "idle"
    /\ UNCHANGED <<l_set, l_todo, additions, deletions, total, _views, expected>>

\* views is read: the memo, or the loop starts over self.repos.
ViewsCall ==
    /\ l_pc = "idle"
    /\ IF _views.some
       THEN /\ l_ret' = Returned(_views)
            /\ UNCHANGED <<l_pc, l_todo, total, expected>>
       ELSE /\ l_pc' = "views"
            /\ l_todo' = l_set
            /\ total' = 0
            /\ l_ret' = NoCall
            /\ expected' = [expected EXCEPT !.views = NoExpectation]
    /\ UNCHANGED <<l_set, additions, deletions, _lines_changed, _views>>

\* One iteration of the loop of views.
ViewsRepo ==
    /\ l_pc = "views"
    /\ \E repo \in l_todo, resp \in ViewResponses :
        LET acc == ViewsIteration(resp, total) IN
        /\ expected' = [expected EXCEPT !.views =
                Expect(@, repo, resp, 0, 0, ViewsWorth(resp))]
        /\ IF acc.raised
           THEN /\ l_pc' = "idle"
                /\ l_ret' = CallRaised
                /\ UNCHANGED <<l_todo, total>>
           ELSE /\ l_todo' = l_todo \ {repo}
                /\ total' = acc.total
                /\ UNCHANGED <<l_pc, l_ret>>
    /\ UNCHANGED <<l_set, additions, deletions, _lines_changed, _views>>

\* The loop of views is over: the total is stored and returned.
ViewsReturn ==
    /\ l_pc = "views"
    /\ l_todo = {}
    /\ _views' = SomeInt(total)
    /\ l_ret' = Returned(SomeInt(total))
    /\ l_pc' = "idle"
    /\ UNCHANGED <<l_set, l_todo, additions, deletions, total, _lines_changed,
                   expected>>

(***************************************************************************)
(* Stats: the core fetch get_stats and the accessors it backs              *)
(*                                                                         *)
(* Coroutines read accessors of one Stats instance. A coroutine is        *)
(* suspended either on `async with self._stats_lock` or, inside get_stats, *)
(* on the `await self.queries.query(...)` of a page; everything between    *)
(* two such awaits is one step. What query gives for a page is the input:  *)
(* a page of the two connections, an empty object, an object whose data    *)
(* is null, or an exception.                                               *)
(*                                                                         *)
(* The upstream holds owned_pages pages of owned repositories and          *)
(* contrib_pages pages of repositories contributed to. A cursor is the     *)
(* number of the page it ends; asked past the last page, a connection      *)
(* gives no nodes, hasNextPage false and a null endCursor.                 *)
(***************************************************************************)

\* Coroutines reading the accessors, and how many reads each makes.
NumCoroutines == 2
Coroutines == 1..NumCoroutines
MaxCalls == 2

\* Pages a connection holds at most, and nodes on one page at most.
MaxPages == 2
MaxNodes == 1

\* The accessors that rest on get_stats.
Accessors == {"name", "stargazers", "languages", "languages_proportional", "repos"}

\* A null cursor (Python None, GraphQL null): the start of the list.
NullCursor == 0

\* A null entry of `nodes`.
NullNode == 0
Nodes == RepoIds \cup {NullNode}
NodeLists == SeqsUpTo(Nodes, MaxNodes)

\* What the upstream reports of a repository.
Stars(repo) == repo
ForkCount(repo) == 1
Edge(name, size, color) == [name |-> name, size |-> size, color |-> color]
RepoLangs(repo) ==
    CASE repo = 1 -> <<Edge("Python", 300, "blue"), Edge("html", 100, "red")>>
      [] repo = 2 -> <<Edge("Python", 0, "green"), Edge("HTML", 50, "orange")>>
      [] OTHER -> <<Edge("HTML", 20, "red")>>

\* str.lower() on language names
LowerLang(s) == CASE s = "HTML" -> "html" [] s = "Python" -> "python" [] OTHER -> s

\* Optional[Set[str]] and Optional[Dict[str, Any]]
NoSet == [some |-> FALSE, set |-> {}]
SomeSet(S) == [some |-> TRUE, set |-> S]
EmptyMap == [x \in {} |-> 0]
NoMap == [some |-> FALSE, map |-> EmptyMap]
SomeMap(m) == [some |-> TRUE, map |-> m]

\* v["prop"]: absent, or 100 * (size / langs_total) kept as a fraction.
NoProp == [set |-> FALSE, num |-> 0, den |-> 1]
Prop(num, den) == [set |-> TRUE, num |-> num, den |-> den]

\* The running totals of get_stats, and why nodes were passed over.
Totals(repos, stargazers, forks, languages, passed) ==
    [repos |-> repos, stargazers |-> stargazers, forks |-> forks,
     languages |-> languages, passed |-> passed]

\* `if lang_name.lower() in exclude_langs_lower: continue`
ExcludedCaseSensitive(lang_name, exclude_langs_lower) ==
    lang_name \in exclude_langs_lower

Excluded(lang_name, exclude_langs_lower) ==
    LowerLang(lang_name) \in exclude_langs_lower

\* One edge whose language is not excluded: `if lang_name in
\* self._languages` the size and the occurrences grow, else the entry is made.
AddLangLastColor(lang, languages) ==
    [x \in DOMAIN languages \cup {lang.name} |->
        IF x # lang.name THEN languages[x]
        ELSE [size |-> lang.size
                        + (IF x \in DOMAIN languages THEN languages[x].size ELSE 0),
              occurrences |-> 1 + (IF x \in DOMAIN languages
                                   THEN languages[x].occurrences ELSE 0),
              color |-> lang.color, prop |-> NoProp]]

AddLang(lang, languages) ==
    IF lang.name \in DOMAIN languages
    THEN [languages EXCEPT ![lang.name] =
            [@ EXCEPT !.size = @ + lang.size, !.occurrences = @ + 1]]
    ELSE [x \in DOMAIN languages \cup {lang.name} |->
            IF x = lang.name
            THEN [size |-> lang.size, occurrences |-> 1,
                  color |-> lang.color, prop |-> NoProp]
            ELSE languages[x]]

\* `for lang in repo_langs`
RECURSIVE AddLangs(_, _, _)
AddLangs(repo_langs, languages, exclude_langs_lower) ==
    IF repo_langs = <<>> THEN languages
    ELSE LET lang == Head(repo_langs)
             lang_name == lang.name
         IN AddLangs(Tail(repo_langs),
              IF Excluded(lang_name, exclude_langs_lower) THEN languages
              ELSE AddLang(lang, languages),
              exclude_langs_lower)

\* `if name in self._repos or name in self._exclude_repos: continue`
SkipExcludedOnly(name, repos, exclude_repos) == name \in exclude_repos

Skip(name, repos, exclude_repos) == name \in repos \/ name \in exclude_repos

\* `for repo in repos`
RECURSIVE AddRepos(_, _, _, _)
AddRepos(repos, t, exclude_repos, exclude_langs_lower) ==
    IF repos = <<>> THEN t
    ELSE LET repo == Head(repos) IN
         AddRepos(Tail(repos),
            IF repo = NullNode THEN t
            ELSE IF Skip(repo, t.repos, exclude_repos)
            THEN [t EXCEPT !.passed =
                    @ \cup {IF repo \in t.repos THEN "seen" ELSE "excluded"}]
            ELSE Totals(t.repos \cup {repo},
                        t.stargazers + Stars(repo),
                        t.forks + ForkCount(repo),
                        AddLangs(RepoLangs(repo), t.languages,
                                 exclude_langs_lower),
                        t.passed),
            exclude_repos, exclude_langs_lower)

\* langs_total and v["prop"] for every language
RECURSIVE SumSizes(_, _)
SumSizes(languages, names) ==
    IF names = {} THEN 0
    ELSE LET k == CHOOSE x \in names : TRUE IN
         languages[k].size + SumSizes(languages, names \ {k})
ProportionFraction(size, langs_total) ==
    IF langs_total > 0 THEN Prop(size, langs_total) ELSE Prop(0, 1)

Proportion(size, langs_total) ==
    IF langs_total > 0 THEN Prop(100 * size, langs_total) ELSE Prop(0, 1)

WithProps(languages) ==
    LET langs_total == SumSizes(languages, DOMAIN languages) IN
    [k \in DOMAIN languages |->
        [languages[k] EXCEPT !.prop = Proportion(languages[k].size, langs_total)]]

\* A connection of a page.
Conn(nodes, hasNextPage, endCursor) ==
    [nodes |-> nodes, hasNextPage |-> hasNextPage, endCursor |-> endCursor]
NoConn == Conn(<<>>, FALSE, NullCursor)

\* What the upstream answers for a connection of `pages` pages asked after
\* `cursor`, `nodes` being what page cursor + 1 holds.
ServerConn(pages, cursor, nodes) ==
    IF cursor < pages
    THEN Conn(nodes, cursor + 1 < pages, cursor + 1)
    ELSE NoConn

\* The loop goes on while either connection reports hasNextPage.
MorePages(owned_repos, contrib_repos) ==
    owned_repos.hasNextPage \/ contrib_repos.hasNextPage

\* pageInfo.get("endCursor", next_owned): the key is there, its value is
\* taken, null included.
NextCursorStuck(conn, cursor) == cursor

NextCursor(conn, cursor) == conn.endCursor

\* What an accessor hands back from the attributes.
Value(name, n, set, map) == [name |-> name, n |-> n, set |-> set, map |-> map]
PropOnly(languages) ==
    [k \in DOMAIN languages |->
        [size |-> 0, occurrences |-> 0, color |-> None,
         prop |-> IF languages[k].prop.set THEN languages[k].prop ELSE Prop(0, 1)]]
AccessorValue(acc, name, stargazers, languages, repos) ==
    CASE acc = "name" -> Value(name, 0, {}, EmptyMap)
      [] acc = "stargazers" -> Value(None, stargazers.n, {}, EmptyMap)
      [] acc = "languages" -> Value(None, 0, {}, languages.map)
      [] acc = "languages_proportional" -> Value(None, 0, {}, PropOnly(languages.map))
      [] acc = "repos" -> Value(None, 0, repos.set, EmptyMap)

\* The test in front of `await self.get_stats()` in each accessor.
Memoized(acc) ==
    CASE acc = "name" -> _name # None
      [] acc = "stargazers" -> _stargazers.some
      [] acc \in {"languages", "languages_proportional"} -> _languages.some
      [] acc = "repos" -> _repos.some

\* What a read came to: the value, whether the core fetch had completed
\* when it returned, and who held the lock then.
NoRead == [kind |-> "none", acc |-> None, val |-> Value(None, 0, {}, EmptyMap),
           fetched |-> FALSE, holder |-> 0, via |-> None]
ReadReturned(acc, val, fetched, holder) ==
    [kind |-> "returned", acc |-> acc, val |-> val, fetched |-> fetched,
     holder |-> holder, via |-> None]
ReadRaised(acc) ==
    [kind |-> "raised", acc |-> acc, val |-> Value(None, 0, {}, EmptyMap),
     fetched |-> FALSE, holder |-> 0, via |-> None]

\* The way a read went: from the memo, through its routine, or the
\* exception it raised.
Via(read, via) == [read EXCEPT !.via = via]

\* History kept of a fetch that ignores forked repositories: the
\* repositories its pages have held, by connection.
NoneServed == [owned |-> {}, contrib |-> {}]

Serve(s, ignore, owned_nodes, contrib_nodes) ==
    IF ~ignore THEN s
    ELSE [owned |-> s.owned \cup
                      ({owned_nodes[i] : i \in DOMAIN owned_nodes} \ {NullNode}),
          contrib |-> s.contrib \cup
                      ({contrib_nodes[i] : i \in DOMAIN contrib_nodes} \ {NullNode})]

\* self._stats_lock: None, or the asyncio.Lock made by the n-th creation.
NoLock == [made |-> 0]
Lock(n) == [made |-> n]

StatsIdle(pages, names, ignore, excluded_repos, excluded_langs) ==
    /\ owned_pages \in pages
    /\ contrib_pages \in pages
    /\ viewer_name \in names
    /\ _ignore_forked_repos \in ignore
    /\ _exclude_repos \in excluded_repos
    /\ _exclude_langs \in excluded_langs
    /\ _name = None
    /\ _stargazers = Unset
    /\ _forks = Unset
    /\ _languages = NoMap
    /\ _repos = NoSet
    /\ _stats_lock = NoLock
    /\ locked = 0
    /\ waiters = <<>>
    /\ _stats_fetched = FALSE
    /\ s_pc = [c \in Coroutines |-> "idle"]
    /\ s_acc = [c \in Coroutines |-> None]
    /\ next_owned = [c \in Coroutines |-> NullCursor]
    /\ next_contrib = [c \in Coroutines |-> NullCursor]
    /\ s_ret = [c \in Coroutines |-> NoRead]
    /\ calls = [c \in Coroutines |-> 0]
    /\ fetches = 0
    /\ aborts = 0
    /\ skipped = {}
    /\ served = NoneServed

configVars == <<owned_pages, contrib_pages, viewer_name, _ignore_forked_repos,
                _exclude_repos, _exclude_langs>>

\* get_stats returns to the accessor of c, which returns its value; the
\* forks accessor goes on from there.
ReturnRead(c, acc) ==
    IF acc = "forks"
    THEN /\ s_pc' = [s_pc EXCEPT ![c] = "forks_received"]
         /\ UNCHANGED s_ret
    ELSE /\ s_pc' = [s_pc EXCEPT ![c] = "idle"]
         /\ s_ret' = [s_ret EXCEPT ![c] =
              ReadReturned(acc, AccessorValue(acc, _name', _stargazers', _languages', _repos'),
                           _stats_fetched', locked')]

\* Inside `async with self._stats_lock`, up to the first page's query: the
\* fetch was done already, or the attributes are reset and the loop entered.
EnterFetch(c, acc) ==
    IF _stats_fetched
    THEN /\ locked' = 0
         /\ UNCHANGED <<_name, _stargazers, _forks, _languages, _repos,
                        _stats_fetched, next_owned, next_contrib, fetches>>
         /\ ReturnRead(c, acc)
    ELSE /\ _stargazers' = SomeInt(0)
         /\ _forks' = SomeInt(0)
         /\ _languages' = SomeMap(EmptyMap)
         /\ _repos' = SomeSet({})
         /\ locked' = c
         /\ next_owned' = [next_owned EXCEPT ![c] = NullCursor]
         /\ next_contrib' = [next_contrib EXCEPT ![c] = NullCursor]
         /\ s_pc' = [s_pc EXCEPT ![c] = "fetch"]
         /\ fetches' = fetches + 1
         /\ UNCHANGED <<_name, _stats_fetched, s_ret>>

\* `if self._stats_lock is None`
NeedsLockAlways(lock) == TRUE

NeedsLock(lock) == lock = NoLock

\* get_stats is called. A lock that is created is free and has no waiters,
\* and is taken at once; the lock there is, is taken when it is free and
\* nobody waits for it, else the coroutine queues.
GetStats(c, acc) ==
    IF NeedsLock(_stats_lock)
    THEN /\ _stats_lock' = Lock(_stats_lock.made + 1)
         /\ waiters' = <<>>
         /\ EnterFetch(c, acc)
    ELSE /\ UNCHANGED _stats_lock
         /\ IF locked = 0 /\ waiters = <<>>
            THEN EnterFetch(c, acc) /\ UNCHANGED waiters
            ELSE /\ waiters' = Append(waiters, c)
                 /\ s_pc' = [s_pc EXCEPT ![c] = "lock_wait"]
                 /\ UNCHANGED <<_name, _stargazers, _forks, _languages,
                                _repos, locked, _stats_fetched, next_owned,
                                next_contrib, s_ret, fetches>>

\* A coroutine reads an accessor. The memoized attribute is returned at
\* once; else get_stats is called.
Read(c, acc) ==
    /\ s_pc[c] = "idle"
    /\ calls[c] < MaxCalls
    /\ calls' = [calls EXCEPT ![c] = @ + 1]
    /\ s_acc' = [s_acc EXCEPT ![c] = acc]
    /\ IF Memoized(acc)
       THEN /\ s_ret' = [s_ret EXCEPT ![c] =
                ReadReturned(acc, AccessorValue(acc, _name, _stargazers, _languages, _repos),
                             _stats_fetched, locked)]
            /\ UNCHANGED <<_name, _stargazers, _forks, _languages, _repos,
                           _stats_lock, locked, waiters, _stats_fetched, s_pc,
                           next_owned, next_contrib, fetches>>
       ELSE GetStats(c, acc)
    /\ UNCHANGED <<configVars, aborts, skipped, served>>

\* The first waiter is woken by the release of the lock and takes it.
LockAcquire(c) ==
    /\ s_pc[c] = "lock_wait"
    /\ locked = 0
    /\ waiters # <<>>
    /\ Head(waiters) = c
    /\ waiters' = Tail(waiters)
    /\ EnterFetch(c, s_acc[c])
    /\ UNCHANGED <<configVars, _stats_lock, s_acc, calls, aborts, skipped, served>>

\* The query of a page raised, or gave an object whose data is null (then
\* `.get("viewer", {})` raises on None): the exception leaves get_stats,
\* releasing the lock, and leaves the accessor.
FetchAbort(c) ==
    /\ s_pc[c] = "fetch"
    /\ locked' = 0
    /\ s_pc' = [s_pc EXCEPT ![c] = "idle"]
    /\ s_ret' = [s_ret EXCEPT ![c] = ReadRaised(s_acc[c])]
    /\ aborts' = aborts + 1
    /\ UNCHANGED <<configVars, _name, _stargazers, _forks, _languages, _repos,
                   _stats_lock, waiters, _stats_fetched, s_acc, next_owned,
                   next_contrib, calls, fetches, skipped, served>>

\* `repos`: the nodes of the page that are aggregated.
PageReposWithForked(ignore, owned_repos, contrib_repos) ==
    owned_repos.nodes \o contrib_repos.nodes

PageRepos(ignore, owned_repos, contrib_repos) ==
    IF ignore THEN owned_repos.nodes
    ELSE owned_repos.nodes \o contrib_repos.nodes

\* One iteration of `while True` on the page the query gave.
ProcessPage(c, name, owned_repos, contrib_repos) ==
    LET repos == PageRepos(_ignore_forked_repos, owned_repos, contrib_repos)
        t == AddRepos(repos,
                      Totals(_repos.set, _stargazers.n, _forks.n, _languages.map,
                             skipped),
                      _exclude_repos,
                      {LowerLang(x) : x \in _exclude_langs})
    IN
    /\ _name' = name
    /\ _stargazers' = SomeInt(t.stargazers)
    /\ _forks' = SomeInt(t.forks)
    /\ _repos' = SomeSet(t.repos)
    /\ skipped' = t.passed
    /\ served' = Serve(served, _ignore_forked_repos, owned_repos.nodes,
                       contrib_repos.nodes)
    /\ IF MorePages(owned_repos, contrib_repos)
       THEN /\ next_owned' = [next_owned EXCEPT ![c] =
                                NextCursor(owned_repos, @)]
            /\ next_contrib' = [next_contrib EXCEPT ![c] =
                                NextCursor(contrib_repos, @)]
            /\ _languages' = SomeMap(t.languages)
            /\ UNCHANGED <<locked, _stats_fetched, s_pc, s_ret>>
       ELSE /\ _languages' = SomeMap(WithProps(t.languages))
            /\ _stats_fetched' = TRUE
            /\ locked' = 0
            /\ ReturnRead(c, s_acc[c])
            /\ UNCHANGED <<next_owned, next_contrib>>

\* The query gave a page of the two connections.
FetchPage(c) ==
    /\ s_pc[c] = "fetch"
    /\ \E owned_nodes \in NodeLists, contrib_nodes \in NodeLists :
        ProcessPage(c,
            IF viewer_name # None THEN viewer_name ELSE username,
            ServerConn(owned_pages, next_owned[c],
                       IF next_owned[c] < owned_pages THEN owned_nodes ELSE <<>>),
            ServerConn(contrib_pages, next_contrib[c],
                       IF next_contrib[c] < contrib_pages THEN contrib_nodes ELSE <<>>))
    /\ UNCHANGED <<configVars, _stats_lock, waiters, s_acc, calls, fetches, aborts>>

\* The query gave the empty object (what it returns after a failure): no
\* viewer, no nodes, no pageInfo.
FetchEmpty(c) ==
    /\ s_pc[c] = "fetch"
    /\ ProcessPage(c, "No Name", NoConn, NoConn)
    /\ UNCHANGED <<configVars, _stats_lock, waiters, s_acc, calls, fetches, aborts>>

(***************************************************************************)
(* The accessors with a fetch routine of their own: total_contributions,  *)
(* total_commits, prs and issues (get_summary_stats), forks_made           *)
(* (get_user_forks). A coroutine is suspended on the                       *)
(* `await self.queries.query(...)` of its routine; what query gives is the *)
(* input: the object asked for ("ok"), the empty object ("empty"), an      *)
(* object whose data is null ("nulldata") or whose user is null            *)
(* ("nulluser"), or an exception ("raise").                                *)
(***************************************************************************)

Answers == {"ok", "empty", "nulldata", "raise"}

\* What the upstream reports of the viewer.
Upstream == [prs |-> 4, issues |-> 3, commits |-> 3, forks |-> 2]

\* year.get("contributionCalendar", {}).get("totalContributions", 0)
Contribs(year) == IF year = 2020 THEN 5 ELSE 7

\* The locals of the routine a coroutine is in.
NoLocals == [years |-> <<>>, total_commits |-> 0, left |-> 0,
             cursor |-> NullCursor, total_forks |-> 0, forks_received |-> 0]

\* Queries sent so far, by routine.
NoQueries == [years |-> 0, batch |-> 0, commits |-> 0, summary |-> 0, forks |-> 0]

SummaryIdle(years, emails, pages) ==
    /\ contribution_years \in years
    /\ _emails \in emails
    /\ fork_pages \in pages
    /\ _total_contributions = Unset
    /\ _prs = Unset
    /\ _issues = Unset
    /\ _forks_made = Unset
    /\ locals = [c \in Coroutines |-> NoLocals]
    /\ queries = NoQueries

\* What get_stats and its accessors own, _name apart.
fetchVars == <<configVars, _stargazers, _forks, _languages, _repos,
               _stats_lock, locked, waiters, _stats_fetched, next_owned,
               next_contrib, fetches, aborts, skipped, served>>

IntValue(n) == Value(None, n, {}, EmptyMap)

\* Another coroutine inside the routine of acc, 0 when there is none.
Busy(c, acc) ==
    IF \E d \in Coroutines \ {c} : s_pc[d] # "idle" /\ s_acc[d] = acc
    THEN CHOOSE d \in Coroutines \ {c} : s_pc[d] # "idle" /\ s_acc[d] = acc
    ELSE 0

\* A coroutine reads acc.
Call(c, acc) ==
    /\ s_pc[c] = "idle"
    /\ calls[c] < MaxCalls
    /\ calls' = [calls EXCEPT ![c] = @ + 1]
    /\ s_acc' = [s_acc EXCEPT ![c] = acc]

\* The read suspends on a query of the routine `kind`.
Await(c, pc, kind) ==
    /\ s_pc' = [s_pc EXCEPT ![c] = pc]
    /\ queries' = [queries EXCEPT ![kind] = @ + 1]
    /\ UNCHANGED s_ret

\* The read returns n, having gone the way `via`; or raises exc.
Done(c, acc, n, via) ==
    /\ s_pc' = [s_pc EXCEPT ![c] = "idle"]
    /\ s_ret' = [s_ret EXCEPT ![c] =
         Via(ReadReturned(acc, IntValue(n), _stats_fetched, Busy(c, acc)), via)]

Raise(c, exc) ==
    /\ s_pc' = [s_pc EXCEPT ![c] = "idle"]
    /\ s_ret' = [s_ret EXCEPT ![c] = Via(ReadRaised(s_acc[c]), exc)]

\* ---- Stats.total_contributions

\* self._total_contributions += contrib
AddContribOverwrite(acc, contrib) == contrib

AddContrib(acc, contrib) == acc + contrib

\* `for year in by_year`
RECURSIVE SumContribs(_, _)
SumContribs(by_year, acc) ==
    IF by_year = <<>> THEN acc
    ELSE SumContribs(Tail(by_year), AddContrib(acc, Contribs(Head(by_year))))

\* Entry: the memoized total, or 0 is stored and the years are asked for.
ContributionsCall(c) ==
    /\ Call(c, "total_contributions")
    /\ IF _total_contributions.some
       THEN /\ Done(c, "total_contributions", _total_contributions.n, "memo")
            /\ UNCHANGED <<_total_contributions, queries>>
       ELSE /\ _total_contributions' = SomeInt(0)
            /\ Await(c, "years", "years")
    /\ UNCHANGED <<fetchVars, _name, contribution_years, _emails, fork_pages,
                   _prs, _issues, _forks_made, locals>>

\* The years arrived: none, return 0; else the batched query is sent.
ContributionsYears(c) ==
    /\ s_pc[c] = "years"
    /\ \E answer \in Answers :
        LET years == IF answer = "ok" THEN contribution_years ELSE <<>> IN
        IF answer \in {"nulldata", "raise"}
        THEN Raise(c, answer) /\ UNCHANGED <<locals, queries>>
        ELSE IF years = <<>>
        THEN Done(c, "total_contributions", 0, "no_years") /\ UNCHANGED <<locals, queries>>
        ELSE /\ locals' = [locals EXCEPT ![c].years = years]
             /\ Await(c, "batch", "batch")
    /\ UNCHANGED <<fetchVars, _name, contribution_years, _emails, fork_pages,
                   _total_contributions, _prs, _issues, _forks_made, s_acc,
                   calls>>

\* The totals by year arrived: they are added to the attribute.
ContributionsBatch(c) ==
    /\ s_pc[c] = "batch"
    /\ \E answer \in Answers :
        IF answer \in {"nulldata", "raise"}
        THEN Raise(c, answer) /\ UNCHANGED _total_contributions
        ELSE LET by_year == IF answer = "ok" THEN locals[c].years ELSE <<>>
                 sum == SumContribs(by_year, _total_contributions.n)
             IN /\ _total_contributions' = SomeInt(sum)
                /\ Done(c, "total_contributions", sum,
                        IF answer = "ok" THEN "batch" ELSE "batch_empty")
    /\ UNCHANGED <<fetchVars, _name, contribution_years, _emails, fork_pages,
                   _prs, _issues, _forks_made, locals, queries, s_acc, calls>>

\* ---- Stats.total_commits

\* `if self._emails:` one query per email, else one query.
CommitQueries(emails) == IF emails = None \/ emails = <<>> THEN 1 ELSE Len(emails)

CommitsCall(c) ==
    /\ Call(c, "total_commits")
    /\ locals' = [locals EXCEPT ![c].total_commits = 0,
                                ![c].left = CommitQueries(_emails)]
    /\ Await(c, "commits", "commits")
    /\ UNCHANGED <<fetchVars, _name, contribution_years, _emails, fork_pages,
                   _total_contributions, _prs, _issues, _forks_made>>

\* `if "data" in response and "user" in response["data"]`: with data null
\* the test raises TypeError, with user null the subscript does.
CommitsResponse(c) ==
    /\ s_pc[c] = "commits"
    /\ \E answer \in Answers \cup {"nulluser"} :
        IF answer \in {"nulldata", "nulluser", "raise"}
        THEN Raise(c, answer) /\ UNCHANGED <<locals, queries>>
        ELSE LET total_commits == locals[c].total_commits +
                    (IF answer = "ok" THEN Upstream.commits ELSE 0)
             IN IF locals[c].left > 1
                THEN /\ locals' = [locals EXCEPT
                            ![c].total_commits = total_commits,
                            ![c].left = @ - 1]
                     /\ Await(c, "commits", "commits")
                ELSE /\ Done(c, "total_commits", total_commits, "commits")
                     /\ UNCHANGED <<locals, queries>>
    /\ UNCHANGED <<fetchVars, _name, contribution_years, _emails, fork_pages,
                   _total_contributions, _prs, _issues, _forks_made, s_acc,
                   calls>>

\* ---- Stats.prs, Stats.issues and get_summary_stats

SummaryAccessors == {"prs", "issues"}

\* viewer.get("name") or viewer.get("login", "No Name"), kept only when no
\* name is known yet.
SummaryNameAlways(name, viewer) ==
    IF viewer # None THEN viewer ELSE username

SummaryName(name, viewer) ==
    IF name # None THEN name
    ELSE IF viewer # None THEN viewer ELSE username

SummaryCall(c, acc) ==
    /\ Call(c, acc)
    /\ LET memo == IF acc = "prs" THEN _prs ELSE _issues IN
       IF memo.some
       THEN Done(c, acc, memo.n, "memo") /\ UNCHANGED queries
       ELSE Await(c, "summary", "summary")
    /\ UNCHANGED <<fetchVars, _name, contribution_years, _emails, fork_pages,
                   _total_contributions, _prs, _issues, _forks_made, locals>>

\* The summary arrived. Without a viewer get_summary_stats returns and the
\* accessor's assert fails.
SummaryResponse(c) ==
    /\ s_pc[c] = "summary"
    /\ \E answer \in Answers :
        IF answer \in {"nulldata", "raise"}
        THEN Raise(c, answer) /\ UNCHANGED <<_name, _prs, _issues>>
        ELSE IF answer = "empty"
        THEN /\ UNCHANGED <<_name, _prs, _issues>>
             /\ IF (IF s_acc[c] = "prs" THEN _prs ELSE _issues).some
                THEN Done(c, s_acc[c],
                          (IF s_acc[c] = "prs" THEN _prs ELSE _issues).n,
                          "summary")
                ELSE Raise(c, "assert")
        ELSE /\ _name' = SummaryName(_name, viewer_name)
             /\ _prs' = SomeInt(Upstream.prs)
             /\ _issues' = SomeInt(Upstream.issues)
             /\ Done(c, s_acc[c],
                     IF s_acc[c] = "prs" THEN Upstream.prs ELSE Upstream.issues,
                     "summary")
    /\ UNCHANGED <<fetchVars, contribution_years, _emails, fork_pages,
                   _total_contributions, _forks_made, locals, queries, s_acc,
                   calls>>

\* ---- Stats.forks_made and get_user_forks

ForksMadeCall(c) ==
    /\ Call(c, "forks_made")
    /\ IF _forks_made.some
       THEN Done(c, "forks_made", _forks_made.n, "memo") /\ UNCHANGED <<locals, queries>>
       ELSE /\ locals' = [locals EXCEPT ![c].total_forks = 0,
                                       ![c].cursor = NullCursor]
            /\ Await(c, "user_forks", "forks")
    /\ UNCHANGED <<fetchVars, _name, contribution_years, _emails, fork_pages,
                   _total_contributions, _prs, _issues, _forks_made>>

\* forks_received of the forks accessor the coroutine is in; forks_made
\* read by itself adds nothing to its value.
ForksReceived(c) ==
    IF s_acc[c] = "forks" THEN locals[c].forks_received ELSE 0

\* A page of the user's forks arrived: totalCount is taken from the first
\* page, and the loop goes on while hasNextPage is true.
ForksMadeResponse(c) ==
    /\ s_pc[c] = "user_forks"
    /\ \E answer \in Answers :
        IF answer \in {"nulldata", "raise"}
        THEN Raise(c, answer) /\ UNCHANGED <<_forks_made, locals, queries>>
        ELSE IF answer = "empty"
        THEN /\ _forks_made' = SomeInt(0)
             /\ Done(c, s_acc[c], ForksReceived(c) + 0, "no_viewer")
             /\ UNCHANGED <<locals, queries>>
        ELSE LET page == ServerConn(fork_pages, locals[c].cursor, <<>>)
                 total_forks == IF locals[c].cursor = NullCursor
                                THEN Upstream.forks
                                ELSE locals[c].total_forks
             IN IF page.hasNextPage
                THEN /\ locals' = [locals EXCEPT
                            ![c].total_forks = total_forks,
                            ![c].cursor = page.endCursor]
                     /\ Await(c, "user_forks", "forks")
                     /\ UNCHANGED _forks_made
                ELSE /\ _forks_made' = SomeInt(total_forks)
                     /\ Done(c, s_acc[c], ForksReceived(c) + total_forks,
                             "user_forks")
                     /\ UNCHANGED <<locals, queries>>
    /\ UNCHANGED <<fetchVars, _name, contribution_years, _emails, fork_pages,
                   _total_contributions, _prs, _issues, s_acc, calls>>

\* ---- Stats.forks

\* `forks_received = self._forks`, then `await self.forks_made`: the memo
\* is added and returned, or get_user_forks suspends on its first query.
ForksMade(c) ==
    IF _forks_made.some
    THEN /\ Done(c, "forks", _forks.n + _forks_made.n, "memo")
         /\ UNCHANGED <<locals, queries>>
    ELSE /\ locals' = [locals EXCEPT ![c].forks_received = _forks.n,
                                     ![c].total_forks = 0,
                                     ![c].cursor = NullCursor]
         /\ Await(c, "user_forks", "forks")

\* A coroutine reads forks: get_stats is called only while _forks is None.
ForksCall(c) ==
    /\ Call(c, "forks")
    /\ IF _forks.some
       THEN /\ ForksMade(c)
            /\ UNCHANGED <<_name, _stargazers, _forks, _languages, _repos,
                           _stats_lock, locked, waiters, _stats_fetched,
                           next_owned, next_contrib, fetches>>
       ELSE /\ GetStats(c, "forks")
            /\ UNCHANGED <<locals, queries>>
    /\ UNCHANGED <<configVars, aborts, skipped, served, contribution_years,
                   _emails, fork_pages, _total_contributions, _prs, _issues,
                   _forks_made>>

\* get_stats has returned to the forks accessor, which runs on without
\* suspending.
ForksResume(c) ==
    /\ s_pc[c] = "forks_received"
    /\ ForksMade(c)
    /\ UNCHANGED <<fetchVars, _name, contribution_years, _emails, fork_pages,
                   _total_contributions, _prs, _issues, _forks_made, s_acc,
                   calls>>

(***************************************************************************)
(* main of generate_images.py and of github_stats.py: the environment is   *)
(* read and checked, then the HTTP session is opened, the Stats built and  *)
(* the statistics fetched through it.                                      *)
(***************************************************************************)

\* Requests a run sends at most.
MaxRequests == 2

Modules == {"generate_images", "github_stats"}

\* os.getenv: None when the variable is absent, else its text.
EnvValues == {None, "", "x"}
ForkedValues == {None, "False", "true"}

\* raw.strip().lower() on these texts
LowerEnv(raw) == IF raw = "False" THEN "false" ELSE raw

\* not not raw and raw.strip().lower() != "false"
IgnoreForked(raw) == raw # None /\ raw # "" /\ LowerEnv(raw) # "false"

\* The checks in front of `async with aiohttp.ClientSession()`.
MissingTokenOnly(which, access_token, user) ==
    IF which = "generate_images" THEN access_token = None \/ access_token = ""
    ELSE access_token = None

Missing(which, access_token, user) ==
    IF which = "generate_images"
    THEN (access_token = None \/ access_token = "") \/ user = None
    ELSE access_token = None \/ user = None

MainIdle(modules, values, forked) ==
    /\ module \in modules
    /\ env \in [ACCESS_TOKEN : values, GITHUB_ACTOR : values,
                EXCLUDE_FORKED_REPOS : forked]
    /\ m_pc = "start"
    /\ session = FALSE
    /\ requests = 0
    /\ ignore_forked_repos = FALSE

\* The environment is read; a missing token or user raises.
MainStart ==
    /\ m_pc = "start"
    /\ IF Missing(module, env.ACCESS_TOKEN, env.GITHUB_ACTOR)
       THEN m_pc' = "raised" /\ UNCHANGED ignore_forked_repos
       ELSE /\ m_pc' = "configured"
            /\ ignore_forked_repos' =
                 (module = "generate_images"
                    /\ IgnoreForked(env.EXCLUDE_FORKED_REPOS))
    /\ UNCHANGED <<module, env, session, requests>>

\* async with aiohttp.ClientSession() as session: s = Stats(...)
MainOpen ==
    /\ m_pc = "configured"
    /\ session' = TRUE
    /\ m_pc' = "running"
    /\ UNCHANGED <<module, env, requests, ignore_forked_repos>>

\* The images are generated (the statistics printed): a request is sent.
MainRequest ==
    /\ m_pc = "running"
    /\ requests < MaxRequests
    /\ requests' = requests + 1
    /\ UNCHANGED <<module, env, m_pc, session, ignore_forked_repos>>

\* The work is over, with or without an error: the session is left.
MainClose ==
    /\ m_pc = "running"
    /\ m_pc' = "done"
    /\ UNCHANGED <<module, env, session, requests, ignore_forked_repos>>

(***************************************************************************)
(* Specifications                                                          *)
(***************************************************************************)

StatsOff == StatsIdle({0}, {None}, {FALSE}, {{}}, {{}})
SummaryOff == SummaryIdle({<<>>}, {None}, {1})
MainOff == MainIdle({"github_stats"}, {None}, {None})

InitRest ==
    /\ RestIdle /\ TransIdle({1}) /\ LinesIdle({{}}) /\ StatsOff
    /\ SummaryOff /\ MainOff

NextRest ==
    \/ RestBegin /\ UNCHANGED <<transVars, linesVars, statsVars, summaryVars, mainVars>>
    \/ RestExhausted /\ UNCHANGED <<transVars, linesVars, statsVars, summaryVars, mainVars>>
    \/ RestPrimaryResponse /\ UNCHANGED <<transVars, linesVars, statsVars, summaryVars, mainVars>>
    \/ RestPrimaryFail /\ UNCHANGED <<transVars, linesVars, statsVars, summaryVars, mainVars>>
    \/ RestFallbackSend /\ UNCHANGED <<transVars, linesVars, statsVars, summaryVars, mainVars>>
    \/ RestFallbackResponse /\ UNCHANGED <<transVars, linesVars, statsVars, summaryVars, mainVars>>
    \/ RestFallbackFail /\ UNCHANGED <<transVars, linesVars, statsVars, summaryVars, mainVars>>
    \/ RestWake /\ UNCHANGED <<transVars, linesVars, statsVars, summaryVars, mainVars>>

\* Every request is answered or fails, and every sleep ends: the event loop
\* keeps running the call.
SpecRest == InitRest /\ [][NextRest]_vars /\ WF_vars(NextRest)

InitTransport ==
    /\ TransIdle(1..MaxPermits) /\ RestIdle /\ LinesIdle({{}}) /\ StatsOff
    /\ SummaryOff /\ MainOff

NextTransport ==
    \/ \E c \in Callers : QCall(c) /\ UNCHANGED <<restVars, linesVars, statsVars, summaryVars, mainVars>>
    \/ \E c \in Callers : QPrimarySend(c) /\ UNCHANGED <<restVars, linesVars, statsVars, summaryVars, mainVars>>
    \/ \E c \in Callers : QPrimaryResponse(c) /\ UNCHANGED <<restVars, linesVars, statsVars, summaryVars, mainVars>>
    \/ \E c \in Callers : QPrimaryFail(c) /\ UNCHANGED <<restVars, linesVars, statsVars, summaryVars, mainVars>>
    \/ \E c \in Callers : QFallbackSend(c) /\ UNCHANGED <<restVars, linesVars, statsVars, summaryVars, mainVars>>
    \/ \E c \in Callers : QFallbackResponse(c) /\ UNCHANGED <<restVars, linesVars, statsVars, summaryVars, mainVars>>
    \/ \E c \in Callers : QFallbackFail(c) /\ UNCHANGED <<restVars, linesVars, statsVars, summaryVars, mainVars>>
    \/ \E c \in Callers : RCall(c) /\ UNCHANGED <<restVars, linesVars, statsVars, summaryVars, mainVars>>
    \/ \E c \in Callers : RPrimarySend(c) /\ UNCHANGED <<restVars, linesVars, statsVars, summaryVars, mainVars>>
    \/ \E c \in Callers : RExhausted(c) /\ UNCHANGED <<restVars, linesVars, statsVars, summaryVars, mainVars>>
    \/ \E c \in Callers : RPrimaryResponse(c) /\ UNCHANGED <<restVars, linesVars, statsVars, summaryVars, mainVars>>
    \/ \E c \in Callers : RPrimaryFail(c) /\ UNCHANGED <<restVars, linesVars, statsVars, summaryVars, mainVars>>
    \/ \E c \in Callers : RFallbackSend(c) /\ UNCHANGED <<restVars, linesVars, statsVars, summaryVars, mainVars>>
    \/ \E c \in Callers : RFallbackResponse(c) /\ UNCHANGED <<restVars, linesVars, statsVars, summaryVars, mainVars>>
    \/ \E c \in Callers : RFallbackFail(c) /\ UNCHANGED <<restVars, linesVars, statsVars, summaryVars, mainVars>>
    \/ \E c \in Callers : RWake(c) /\ UNCHANGED <<restVars, linesVars, statsVars, summaryVars, mainVars>>
    \/ \E c \in Callers : RFallbackWake(c) /\ UNCHANGED <<restVars, linesVars, statsVars, summaryVars, mainVars>>

SpecTransport == InitTransport /\ [][NextTransport]_vars

InitLines ==
    /\ LinesIdle(SUBSET RepoIds) /\ RestIdle /\ TransIdle({1}) /\ StatsOff
    /\ SummaryOff /\ MainOff

NextLines ==
    \/ LinesCall /\ UNCHANGED <<restVars, transVars, statsVars, summaryVars, mainVars>>
    \/ LinesRepo /\ UNCHANGED <<restVars, transVars, statsVars, summaryVars, mainVars>>
    \/ LinesReturn /\ UNCHANGED <<restVars, transVars, statsVars, summaryVars, mainVars>>
    \/ ViewsCall /\ UNCHANGED <<restVars, transVars, statsVars, summaryVars, mainVars>>
    \/ ViewsRepo /\ UNCHANGED <<restVars, transVars, statsVars, summaryVars, mainVars>>
    \/ ViewsReturn /\ UNCHANGED <<restVars, transVars, statsVars, summaryVars, mainVars>>

SpecLines == InitLines /\ [][NextLines]_vars

InitStats ==
    /\ StatsIdle(0..MaxPages, {None, "Ann"}, {FALSE}, {{}}, {{"HTML"}})
    /\ RestIdle
    /\ TransIdle({1})
    /\ LinesIdle({{}})
    /\ SummaryOff
    /\ MainOff

NextStats ==
    \/ \E c \in Coroutines, acc \in Accessors :
         Read(c, acc) /\ UNCHANGED <<restVars, transVars, linesVars, summaryVars, mainVars>>
    \/ \E c \in Coroutines :
         LockAcquire(c) /\ UNCHANGED <<restVars, transVars, linesVars, summaryVars, mainVars>>
    \/ \E c \in Coroutines :
         FetchPage(c) /\ UNCHANGED <<restVars, transVars, linesVars, summaryVars, mainVars>>
    \/ \E c \in Coroutines :
         FetchEmpty(c) /\ UNCHANGED <<restVars, transVars, linesVars, summaryVars, mainVars>>
    \/ \E c \in Coroutines :
         FetchAbort(c) /\ UNCHANGED <<restVars, transVars, linesVars, summaryVars, mainVars>>

\* The event loop runs a woken waiter and resumes get_stats with the page
\* the upstream sends; that a query fails is possible, never due.
SpecStats ==
    /\ InitStats
    /\ [][NextStats]_vars
    /\ \A c \in Coroutines :
         /\ WF_vars(LockAcquire(c)
                      /\ UNCHANGED <<restVars, transVars, linesVars, summaryVars, mainVars>>)
         /\ WF_vars(FetchPage(c)
                      /\ UNCHANGED <<restVars, transVars, linesVars, summaryVars, mainVars>>)

InitFetch ==
    /\ StatsIdle({MaxPages}, {"Ann"}, {FALSE}, {{}, {2}},
                 {{}, {"HTML"}, {"python"}})
    /\ RestIdle
    /\ TransIdle({1})
    /\ LinesIdle({{}})
    /\ SummaryOff
    /\ MainOff

SpecFetch == InitFetch /\ [][NextStats]_vars

\* A fetch that ignores forked repositories, over connections of unequal
\* length.
InitForked ==
    /\ StatsIdle(1..MaxPages, {"Ann"}, {TRUE}, {{}}, {{}})
    /\ RestIdle
    /\ TransIdle({1})
    /\ LinesIdle({{}})
    /\ SummaryOff
    /\ MainOff

SpecForked == InitForked /\ [][NextStats]_vars

\* A fetch over one connection of a single page and one that is longer by
\* at least two pages.
InitCursors ==
    /\ StatsIdle({1, MaxPages + 1}, {"Ann"}, {FALSE}, {{}}, {{}})
    /\ RestIdle
    /\ TransIdle({1})
    /\ LinesIdle({{}})
    /\ SummaryOff
    /\ MainOff

SpecCursors == InitCursors /\ [][NextStats]_vars

InitSummary ==
    /\ SummaryIdle({<<>>, <<2020>>, <<2020, 2021>>},
                   {None, <<>>, <<"a@x">>, <<"a@x", "b@x">>}, {1})
    /\ StatsOff
    /\ RestIdle
    /\ TransIdle({1})
    /\ LinesIdle({{}})
    /\ MainOff

NextSummary ==
    \/ \E c \in Coroutines :
         ContributionsCall(c) /\ UNCHANGED <<restVars, transVars, linesVars, mainVars>>
    \/ \E c \in Coroutines :
         ContributionsYears(c) /\ UNCHANGED <<restVars, transVars, linesVars, mainVars>>
    \/ \E c \in Coroutines :
         ContributionsBatch(c) /\ UNCHANGED <<restVars, transVars, linesVars, mainVars>>
    \/ \E c \in Coroutines :
         CommitsCall(c) /\ UNCHANGED <<restVars, transVars, linesVars, mainVars>>
    \/ \E c \in Coroutines :
         CommitsResponse(c) /\ UNCHANGED <<restVars, transVars, linesVars, mainVars>>

SpecSummary == InitSummary /\ [][NextSummary]_vars

InitLifecycle ==
    /\ StatsIdle({1}, {"Ann"}, {FALSE}, {{}}, {{}})
    /\ SummaryIdle({<<>>}, {None}, {MaxPages})
    /\ RestIdle
    /\ TransIdle({1})
    /\ LinesIdle({{}})
    /\ MainOff

NextLifecycle ==
    \/ \E c \in Coroutines, acc \in Accessors :
         Read(c, acc) /\ UNCHANGED <<restVars, transVars, linesVars, summaryVars, mainVars>>
    \/ \E c \in Coroutines :
         LockAcquire(c) /\ UNCHANGED <<restVars, transVars, linesVars, summaryVars, mainVars>>
    \/ \E c \in Coroutines :
         FetchPage(c) /\ UNCHANGED <<restVars, transVars, linesVars, summaryVars, mainVars>>
    \/ \E c \in Coroutines :
         FetchEmpty(c) /\ UNCHANGED <<restVars, transVars, linesVars, summaryVars, mainVars>>
    \/ \E c \in Coroutines :
         FetchAbort(c) /\ UNCHANGED <<restVars, transVars, linesVars, summaryVars, mainVars>>
    \/ \E c \in Coroutines, acc \in SummaryAccessors :
         SummaryCall(c, acc) /\ UNCHANGED <<restVars, transVars, linesVars, mainVars>>
    \/ \E c \in Coroutines :
         SummaryResponse(c) /\ UNCHANGED <<restVars, transVars, linesVars, mainVars>>
    \/ \E c \in Coroutines :
         ForksMadeCall(c) /\ UNCHANGED <<restVars, transVars, linesVars, mainVars>>
    \/ \E c \in Coroutines :
         ForksMadeResponse(c) /\ UNCHANGED <<restVars, transVars, linesVars, mainVars>>

SpecLifecycle == InitLifecycle /\ [][NextLifecycle]_vars

\* The forks accessor read next to the accessors of the core fetch.
InitForks ==
    /\ StatsIdle({MaxPages}, {"Ann"}, {FALSE}, {{}}, {{}})
    /\ SummaryIdle({<<>>}, {None}, {MaxPages})
    /\ RestIdle
    /\ TransIdle({1})
    /\ LinesIdle({{}})
    /\ MainOff

NextForks ==
    \/ \E c \in Coroutines :
         Read(c, "name") /\ UNCHANGED <<restVars, transVars, linesVars, summaryVars, mainVars>>
    \/ \E c \in Coroutines :
         LockAcquire(c) /\ UNCHANGED <<restVars, transVars, linesVars, summaryVars, mainVars>>
    \/ \E c \in Coroutines :
         FetchPage(c) /\ UNCHANGED <<restVars, transVars, linesVars, summaryVars, mainVars>>
    \/ \E c \in Coroutines :
         FetchEmpty(c) /\ UNCHANGED <<restVars, transVars, linesVars, summaryVars, mainVars>>
    \/ \E c \in Coroutines :
         FetchAbort(c) /\ UNCHANGED <<restVars, transVars, linesVars, summaryVars, mainVars>>
    \/ \E c \in Coroutines :
         ForksCall(c) /\ UNCHANGED <<restVars, transVars, linesVars, mainVars>>
    \/ \E c \in Coroutines :
         ForksResume(c) /\ UNCHANGED <<restVars, transVars, linesVars, mainVars>>
    \/ \E c \in Coroutines :
         ForksMadeResponse(c) /\ UNCHANGED <<restVars, transVars, linesVars, mainVars>>

SpecForks == InitForks /\ [][NextForks]_vars

InitMain ==
    /\ MainIdle(Modules, EnvValues, ForkedValues)
    /\ StatsOff
    /\ SummaryOff
    /\ RestIdle
    /\ TransIdle({1})
    /\ LinesIdle({{}})

NextMain ==
    \/ MainStart /\ UNCHANGED <<restVars, transVars, linesVars, statsVars, summaryVars>>
    \/ MainOpen /\ UNCHANGED <<restVars, transVars, linesVars, statsVars, summaryVars>>
    \/ MainRequest /\ UNCHANGED <<restVars, transVars, linesVars, statsVars, summaryVars>>
    \/ MainClose /\ UNCHANGED <<restVars, transVars, linesVars, statsVars, summaryVars>>

SpecMain == InitMain /\ [][NextMain]_vars

(***************************************************************************)
(* Claims                                                                  *)
(***************************************************************************)

\* C4: for every k < 60, a query_rest call whose first k responses have
\* status 202 and whose next response has status 200 with a non-null body
\* returns exactly that body, and whenever a request is in flight one
\* 2-second sleep has been completed for each 202 response received so far.
C4_Retry202ThenPayload ==
    /\ (rest_pc \in {"primary", "fallback"} => sleeps2 = n202)
    /\ (other.status = 200 /\ other.body \in Payloads
          => /\ rest_pc = "done"
             /\ rest_result = other.body
             /\ n202 < MaxAttempts
             /\ sleeps2 = n202)

\* The 200 payload arrives on the 60th attempt, after 59 responses 202.
C4_Witness ==
    /\ rest_pc = "done"
    /\ other.status = 200
    /\ rest_result \in Payloads
    /\ n202 = MaxAttempts - 1
    /\ attempt = MaxAttempts

\* C5: query_rest always terminates; it makes at most 60 attempts, each
\* sending at most one primary and at most one fallback request, and the
\* "too many retries" return happens after exactly 60 attempts and gives
\* the empty result.
C5_Terminates ==
    /\ <>(rest_pc = "done")
    /\ [](/\ attempt <= MaxAttempts
          /\ reqP <= 1
          /\ reqF <= 1
          /\ (how = "exhausted"
                => /\ rest_pc = "done"
                   /\ attempt = MaxAttempts
                   /\ rest_result = EmptyDict))

\* All 60 attempts failed, the last one on both paths.
C5_Witness ==
    /\ rest_pc = "done"
    /\ how = "exhausted"
    /\ reqP = 1
    /\ reqF = 1

\* C6: once a response of the call had status 404, on the primary or the
\* fallback path, the call has returned the empty result: it is not
\* sleeping and has no request in flight.
C6_NotFoundReturnsEmpty ==
    got404 => /\ rest_pc = "done"
              /\ rest_result = EmptyDict
              /\ how = "return"
              /\ sleeping = 0

\* A 404 on the fallback path of a later attempt, after a sleep.
C6_Witness ==
    /\ got404
    /\ rest_pc = "done"
    /\ reqF = 1
    /\ attempt > 1
    /\ sleeps2 > 0

\* C8: Queries.query never surfaces a transport failure to its caller as an
\* exception: no query call ends by raising.
C8_QueryNeverRaises ==
    \A c \in Callers : t_out[c] # Raised

\* C9: across all concurrent query and query_rest calls on one Queries
\* instance, primary and fallback paths, the number of requests in flight
\* is at most max_connections, and the permits held add up to the permits
\* taken from the semaphore.
C9_InFlightBounded ==
    /\ InFlight <= max_connections
    /\ semaphore >= 0
    /\ \A c \in Callers :
         t_pc[c] \in {"q_primary", "q_fallback", "r_primary", "r_fallback"}
            => holds[c] = 1

\* The bound bites: every permit is taken by a request in flight, one of
\* them a primary and one a fallback, while a third coroutine waits.
C9_Witness ==
    /\ max_connections = MaxPermits
    /\ InFlight = max_connections
    /\ \E c \in Callers : t_pc[c] = "q_primary"
    /\ \E c \in Callers : t_pc[c] = "r_fallback"
    /\ \E c \in Callers : t_pc[c] \in {"q_acquire", "q_handler", "r_loop", "r_handler"}

\* C7: in lines_changed and views a repository whose REST fetch gives the
\* empty result (404) or raises adds nothing, the loop goes on to every
\* other repository of the set, and the accessor does not raise; the stored
\* totals are the sums of what the repositories fetched with success are
\* worth.
C7_FailedFetchIsolated ==
    /\ l_ret.kind # "raised"
    /\ (l_pc = "lines_changed"
          => /\ additions = expected.lines.a
             /\ deletions = expected.lines.d
             /\ l_todo = l_set \ expected.lines.seen)
    /\ (l_pc = "views"
          => /\ total = expected.views.v
             /\ l_todo = l_set \ expected.views.seen)
    /\ (_lines_changed.some
          => /\ _lines_changed = SomePair(expected.lines.a, expected.lines.d)
             /\ expected.lines.seen = l_set)
    /\ (_views.some
          => /\ _views = SomeInt(expected.views.v)
             /\ expected.views.seen = l_set)

\* Both accessors have returned non-zero totals, each after a repository
\* whose fetch failed was followed by one fetched with success.
C7_Witness ==
    /\ _lines_changed.some
    /\ _lines_changed.a > 0
    /\ expected.lines.later
    /\ _views.some
    /\ _views.n > 0
    /\ expected.views.later

\* C1: on one Stats instance the fetch loop of get_stats is entered at most
\* once however many reads are made, and once as soon as a read was made.
C1_FetchAtMostOnce ==
    /\ fetches <= 1
    /\ (\E c \in Coroutines : calls[c] > 0) => fetches = 1

\* C2: no read of stargazers, languages, languages_proportional or repos
\* returns while another coroutine is inside the fetch loop of get_stats
\* (holds the lock): a read made then waits for the fetch to be over.
C2_NoReadDuringFetch ==
    \A c \in Coroutines :
        (/\ s_ret[c].kind = "returned"
         /\ s_ret[c].acc \in Accessors \ {"name"})
            => s_ret[c].holder = 0

\* C3: a read that returns when no fetch is in flight returns what a fetch
\* that ran to completion produced; after get_stats was left by an
\* exception, a read does not return the totals accumulated until then.
C3_NoPartialAfterAbort ==
    \A c \in Coroutines :
        (s_ret[c].kind = "returned" /\ s_ret[c].holder = 0)
            => s_ret[c].fetched

\* C10: under a fair schedule a core fetch whose connections are finite (each
\* reports hasNextPage false on its last page and past it) does not page
\* for ever: the coroutine running get_stats leaves it, with _stats_fetched
\* true unless a page query failed and the exception left get_stats.
C10_FetchTerminates ==
    \A c \in Coroutines :
        (s_pc[c] = "fetch") ~>
            (s_pc[c] = "idle" /\ (_stats_fetched \/ s_ret[c].kind = "raised"))

\* A fetch over two pages of owned and one of contributed-to repositories
\* has run to its end.
C10_Witness ==
    /\ owned_pages = 2
    /\ contrib_pages = 1
    /\ _stats_fetched
    /\ aborts = 0
    /\ fetches = 1
    /\ _repos = SomeSet({1, 2})

\* C11: in every state during and after the core fetch the repository set
\* holds no excluded identifier and every identifier was aggregated once:
\* the stargazer and fork totals are the sums of the counts of the
\* repositories in the set, however often a repository came up.
C11_NoExcludedNoDuplicate ==
    _repos.some =>
        /\ _repos.set \cap _exclude_repos = {}
        /\ _stargazers.n = SumOver(_repos.set, [r \in RepoIds |-> Stars(r)])
        /\ _forks.n = SumOver(_repos.set, [r \in RepoIds |-> ForkCount(r)])

\* A fetch is over in which one node was passed over as seen before and
\* another as excluded.
C11_Witness ==
    /\ _stats_fetched
    /\ skipped = {"seen", "excluded"}
    /\ _exclude_repos = {2}
    /\ _repos = SomeSet({1})
    /\ _stargazers = SomeInt(Stars(1))

\* C12: after the core fetch has completed every language has its
\* proportion, 100 * size / total; the proportions add up to 100 when the
\* total size of the retained languages is positive and all are 0 when it
\* is 0.
C12_ProportionsSumTo100 ==
    _stats_fetched =>
        LET m == _languages.map
            totalSize == SumOver(DOMAIN m, [k \in DOMAIN m |-> m[k].size])
        IN /\ \A k \in DOMAIN m : m[k].prop.set /\ m[k].prop.den > 0
           /\ totalSize > 0 =>
                /\ \A k \in DOMAIN m : /\ m[k].prop.den = totalSize
                                       /\ m[k].prop.num = 100 * m[k].size
                /\ SumOver(DOMAIN m, [k \in DOMAIN m |-> m[k].prop.num])
                      = 100 * totalSize
           /\ totalSize = 0 => \A k \in DOMAIN m : m[k].prop.num = 0

\* A fetch is over that found two languages of positive size.
C12_Witness ==
    /\ _stats_fetched
    /\ DOMAIN _languages.map = {"Python", "html"}
    /\ _languages.map["html"].prop = Prop(10000, 400)
    /\ _languages.map["Python"].prop = Prop(30000, 400)

\* What a repository adds to the sizes once the excluded languages, matched
\* without regard to case, are left out.
RetainedSize(repo) ==
    LET edges == RepoLangs(repo)
        kept == {i \in 1..Len(edges) :
                    \A x \in _exclude_langs :
                        LowerLang(edges[i].name) # LowerLang(x)}
    IN SumOver(kept, [i \in 1..Len(edges) |-> edges[i].size])

\* C13: languages are excluded without regard to case: the language map has
\* no key that, lower-cased, is the lower-cased form of an excluded
\* language, the sizes add up to what the retained edges of the aggregated
\* repositories report, and with {HTML} excluded and edges html:100,
\* Python:300 the map is Python alone at 100%.
C13_ExclusionIgnoresCase ==
    _languages.some =>
        LET m == _languages.map IN
        /\ \A k \in DOMAIN m : \A x \in _exclude_langs :
                LowerLang(k) # LowerLang(x)
        /\ SumOver(DOMAIN m, [k \in DOMAIN m |-> m[k].size])
             = SumOver(_repos.set, [r \in RepoIds |-> RetainedSize(r)])
        /\ (_stats_fetched /\ _exclude_langs = {"HTML"} /\ _repos.set = {1})
             => /\ DOMAIN m = {"Python"}
                /\ m["Python"].prop.num = 100 * m["Python"].prop.den

\* With {HTML} excluded, a fetch that met html:100 and Python:300 is over.
C13_Witness ==
    /\ _stats_fetched
    /\ _exclude_langs = {"HTML"}
    /\ _repos = SomeSet({1})
    /\ DOMAIN _languages.map = {"Python"}
    /\ _languages.map["Python"].prop = Prop(30000, 300)

\* C14: total_contributions sends one query for the years and, when there
\* are years, one batched query for all of them, and returns the sum of the
\* totals by year (5 and 7 for 2020 and 2021 give 12); without years it
\* sends no second query and returns 0.
C14_ContributionsSum ==
    /\ queries.years <= 1
    /\ queries.batch <= queries.years
    /\ \A c \in Coroutines :
        /\ s_pc[c] = "batch" => locals[c].years # <<>>
        /\ (s_ret[c].kind = "returned" /\ s_ret[c].via = "batch") =>
             /\ s_ret[c].val.n =
                  SumOver(1..Len(contribution_years),
                          [i \in 1..Len(contribution_years) |->
                              Contribs(contribution_years[i])])
             /\ queries.years = 1
             /\ queries.batch = 1
        /\ (s_ret[c].kind = "returned" /\ s_ret[c].via = "no_years") =>
             /\ s_ret[c].val.n = 0
             /\ queries.batch = 0

\* The years 2020 and 2021 were found and the read returned 12.
C14_Witness ==
    /\ contribution_years = <<2020, 2021>>
    /\ \E c \in Coroutines :
        /\ s_ret[c].kind = "returned"
        /\ s_ret[c].via = "batch"
        /\ s_ret[c].val.n = 12
    /\ queries.years = 1
    /\ queries.batch = 1

\* C15: a failed query of total_commits (the empty object, null data or a
\* null user) adds 0 and does not make the read raise.
C15_FailedCommitQueryAddsZero ==
    \A c \in Coroutines :
        (s_ret[c].acc = "total_commits" /\ s_ret[c].kind = "raised")
            => s_ret[c].via \notin {"nulldata", "nulluser"}

\* C16: a read is safe while another read of the same accessor is under
\* way: total_contributions is not answered from the attribute while the
\* coroutine that fills it still awaits its queries.
C16_ContributionsSafeConcurrently ==
    \A c \in Coroutines :
        (/\ s_ret[c].acc = "total_contributions"
         /\ s_ret[c].kind = "returned"
         /\ s_ret[c].via = "memo")
            => s_ret[c].holder = 0

\* C17: once total_commits has returned to a coroutine, a later read of it
\* by that coroutine sends no query.
C17_PopulatedOnce ==
    \A c \in Coroutines :
        ~(/\ s_pc[c] = "commits"
          /\ s_ret[c].kind = "returned"
          /\ s_ret[c].acc = "total_commits")

\* C18: once the core fetch has completed, no step changes the repository
\* set, the language map, the stargazer total, the forks-received total or
\* the display name, and the fetch stays completed.
C18_NeverInvalidated ==
    [][_stats_fetched =>
         /\ _stats_fetched'
         /\ UNCHANGED <<_repos, _languages, _stargazers, _forks, _name>>]_vars

\* After the fetch that coroutine 1 ran was over, it read prs through
\* get_summary_stats and coroutine 2 read forks_made through get_user_forks.
C18_Witness ==
    /\ _stats_fetched
    /\ fetches = 1
    /\ aborts = 0
    /\ calls = [c \in Coroutines |-> IF c = 1 THEN 2 ELSE IF c = 2 THEN 1 ELSE 0]
    /\ s_ret[1].kind = "returned" /\ s_ret[1].via = "summary"
    /\ s_ret[2].kind = "returned" /\ s_ret[2].via = "user_forks"
    /\ s_ret[2].fetched

\* C19: in a run where ACCESS_TOKEN or GITHUB_ACTOR is absent, main raises
\* before any network activity: no HTTP session is created and no request
\* is sent.
C19_MissingConfigRaisesFirst ==
    (env.ACCESS_TOKEN = None \/ env.GITHUB_ACTOR = None) =>
        /\ m_pc \in {"start", "raised"}
        /\ ~session
        /\ requests = 0

\* With a token but no GITHUB_ACTOR, main of generate_images.py has raised.
C19_Witness ==
    /\ module = "generate_images"
    /\ env.ACCESS_TOKEN = "x"
    /\ env.GITHUB_ACTOR = None
    /\ m_pc = "raised"

\* C20: in query_rest a response is handled on the fallback path as it is
\* on the primary path: whatever status and decodable body answer the
\* fallback request in flight, the attempt ends as it would had they
\* answered the primary request.
C20_FallbackSameAsPrimary ==
    rest_pc = "fallback" =>
        \A status \in Statuses, body \in Bodies \ {"bad"} :
            FallbackOutcome(status, body) = PrimaryOutcome(status, body)

\* C21: query_rest never raises to its caller, whatever fails on the primary
\* and the fallback path: a finished call has returned a JSON value, a
\* payload only from a response that carried one, and the empty result when
\* the attempts ran out.
C21_RestNeverRaises ==
    /\ rest_pc # Raised
    /\ rest_pc = "done" =>
          /\ rest_result \in Payloads \cup {EmptyDict}
          /\ how \in {"return", "exhausted"}
          /\ rest_result \in Payloads => how = "return"
          /\ how = "exhausted" => rest_result = EmptyDict /\ ~got404

\* The last attempt failed on both paths, an earlier one had met a rate
\* limit, and the call still returned the empty result.
C21_Witness ==
    /\ rest_pc = "done"
    /\ how = "exhausted"
    /\ rest_result = EmptyDict
    /\ reqF = 1
    /\ other.status = 403

\* C22: with ignore_forked_repos set, a repository that only pages of the
\* contributed-to connection have held is in no total: the repository set
\* holds owned nodes only, and the stargazer and fork totals and the
\* languages are those of that set. A page whose contributed-to connection
\* reports hasNextPage still continues the loop and advances the
\* contributed-to cursor to the page's endCursor.
C22_ForkedIgnoredStillPaged ==
    /\ [](_ignore_forked_repos /\ _repos.some =>
            /\ _repos.set \subseteq served.owned
            /\ _stargazers.n = SumOver(_repos.set, [r \in RepoIds |-> Stars(r)])
            /\ _forks.n = SumOver(_repos.set, [r \in RepoIds |-> ForkCount(r)])
            /\ \A k \in DOMAIN _languages.map :
                  \E repo \in _repos.set :
                      \E i \in DOMAIN RepoLangs(repo) :
                          RepoLangs(repo)[i].name = k)
    /\ [][\A c \in Coroutines :
            (/\ _ignore_forked_repos
             /\ FetchPage(c)
             /\ next_contrib[c] + 1 < contrib_pages)
            => /\ s_pc'[c] = "fetch"
               /\ next_contrib'[c] = next_contrib[c] + 1]_vars

\* The owned connection is exhausted, the contributed-to one is not: the
\* fetch goes on to its second page, and the repository the first
\* contributed-to page held is in no total.
C22_Witness ==
    /\ _ignore_forked_repos
    /\ owned_pages = 1
    /\ contrib_pages = 2
    /\ \E c \in Coroutines : s_pc[c] = "fetch" /\ next_contrib[c] = 1
    /\ served.contrib = {2}
    /\ served.owned = {1}
    /\ _repos = SomeSet({1})
    /\ _stargazers = SomeInt(1)

\* The edges of a repository that carry the language name k, letter for
\* letter.
EdgesNamed(repo, k) ==
    {i \in DOMAIN RepoLangs(repo) : RepoLangs(repo)[i].name = k}

\* C23: every language of the map has as its size the sum of the sizes of
\* the edges of the aggregated repositories that carry exactly its name, as
\* its occurrences the number of those edges, and as its colour the colour
\* of one of them; and while the entry is in the map no later edge changes
\* its colour.
C23_LanguageTotals ==
    /\ [](_languages.some =>
            \A k \in DOMAIN _languages.map :
                LET v == _languages.map[k] IN
                /\ v.size = SumOver(_repos.set,
                      [r \in RepoIds |->
                         SumOver(EdgesNamed(r, k),
                                 [i \in DOMAIN RepoLangs(r) |-> RepoLangs(r)[i].size])])
                /\ v.occurrences = SumOver(_repos.set,
                      [r \in RepoIds |-> Cardinality(EdgesNamed(r, k))])
                /\ \E r \in _repos.set : \E i \in EdgesNamed(r, k) :
                      RepoLangs(r)[i].color = v.color)
    /\ [][\A k \in DOMAIN _languages.map \cap DOMAIN _languages'.map :
            _languages'.map[k].color = _languages.map[k].color]_vars

\* Python was met first in the repository that reports it green and then
\* in the one that reports it blue; html and HTML are entries of their own.
C23_Witness ==
    /\ _languages.some
    /\ DOMAIN _languages.map = {"Python", "html", "HTML"}
    /\ _languages.map["Python"].color = "green"
    /\ _languages.map["Python"].size = 300
    /\ _languages.map["Python"].occurrences = 2
    /\ _languages.map["html"].size = 100
    /\ _languages.map["HTML"].size = 50

\* C24: a read of forks that returned gives the fork total of the core
\* fetch, complete by then, plus forks_made: the totalCount of the first
\* page of the user's forks, or 0 when a response had no viewer.
C24_ForksIsReceivedPlusMade ==
    \A c \in Coroutines :
        (s_ret[c].kind = "returned" /\ s_ret[c].acc = "forks") =>
            /\ s_ret[c].fetched
            /\ \E forks_made \in
                    (IF s_ret[c].via = "no_viewer" THEN {0}
                     ELSE IF s_ret[c].via = "memo" THEN {0, Upstream.forks}
                     ELSE {Upstream.forks}) :
                  s_ret[c].val.n
                    = SumOver(_repos.set, [r \in RepoIds |-> ForkCount(r)])
                      + forks_made

C26_CursorsOnlyForward ==
    [][\A c \in Coroutines :
        (s_pc[c] = "fetch" /\ s_pc'[c] = "fetch") =>
            /\ next_owned[c] # NullCursor => next_owned'[c] # NullCursor
            /\ next_contrib[c] # NullCursor => next_contrib'[c] # NullCursor]_vars

\* C27: the lock of get_stats is created once; it is held exactly by the
\* coroutine that is inside the fetch loop, so it is free again as soon as
\* that coroutine has left get_stats by a return or by an exception; and
\* under a fair schedule every coroutine waiting for it acquires it and
\* leaves get_stats.
C27_LockReleasedCreatedOnce ==
    /\ [](/\ _stats_lock.made <= 1
          /\ \A c \in Coroutines :
                /\ (locked = c) <=> (s_pc[c] = "fetch")
                /\ (s_pc[c] = "lock_wait")
                      <=> (\E i \in DOMAIN waiters : waiters[i] = c)
          /\ locked \in Coroutines \cup {0})
    /\ \A c \in Coroutines : (s_pc[c] = "lock_wait") ~> (s_pc[c] = "idle")

\* The holder has left get_stats by an exception while another coroutine
\* waits for the lock, which is free.
C27_Witness ==
    /\ waiters # <<>>
    /\ locked = 0
    /\ aborts = 1
    /\ ~_stats_fetched
    /\ _stats_lock = Lock(1)

\* C28: whatever JSON object the transport returns, the empty one included,
\* no read ends on the failure of an accessor's `assert ... is not None`.
C28_AssertsHold ==
    \A c \in Coroutines :
        ~(s_ret[c].kind = "raised" /\ s_ret[c].via = "assert")

\* C29: once a page of a fetch has set the display name to the name or the
\* login the upstream reports, no later page of the same fetch puts the
\* placeholder "No Name" in its place.
C29_NameNotReplacedByPlaceholder ==
    [][\A c \in Coroutines :
        (/\ s_pc[c] = "fetch"
         /\ next_owned[c] # NullCursor \/ next_contrib[c] # NullCursor
         /\ _name \notin {None, "No Name"})
        => _name' # "No Name"]_vars

\* C30: a coroutine holds at most one permit, and holds it exactly while
\* it is inside an `async with self.semaphore` block (a request in flight,
\* or the sleep of the fallback path); the permits held and the permits
\* left add up to max_connections, so that every call that has returned or
\* raised has given its permit back; and whenever a coroutine waits for a
\* permit, one is left or is held by a coroutine that needs no other
\* permit to go on.
C30_PermitsNeverLeaked ==
    /\ \A c \in Callers :
          /\ holds[c] \in {0, 1}
          /\ (holds[c] = 1) <=>
                t_pc[c] \in {"q_primary", "q_fallback", "r_primary",
                             "r_fallback", "r_fbsleep"}
    /\ semaphore + SumOver(Callers, holds) = max_connections
    /\ (\E c \in Callers :
            t_pc[c] \in {"q_acquire", "q_handler", "r_loop", "r_handler"})
         => \/ semaphore > 0
            \/ \E d \in Callers :
                 /\ holds[d] = 1
                 /\ t_pc[d] \notin {"q_acquire", "q_handler", "r_loop", "r_handler"}

\* With one permit: a call has raised and a call has returned the empty
\* result, the permit is back, and a third coroutine is about to take it
\* for its fallback request.
C30_Witness ==
    /\ max_connections = 1
    /\ semaphore = 1
    /\ \E c \in Callers : t_pc[c] = "idle" /\ t_out[c] = Raised
    /\ \E c \in Callers : t_pc[c] = "idle" /\ t_out[c] = EmptyDict
    /\ \E c \in Callers : t_pc[c] = "r_handler"

====
